---- MODULE Spec2Model ----
(***************************************************************************)
(* Model of the PeerDB CDC flow orchestrator, CDCFlowWorkflow in           *)
(* flow/workflows/cdc_flow.go: one durable workflow per mirror, driven by  *)
(* three signal channels, child workflows, activities and timers.          *)
(*                                                                         *)
(* A workflow runs as a single coroutine.  It only gives up control at a   *)
(* selector.Select, at a future Get and at a sleep; everything between     *)
(* two such points is one action here.  The environment (signal senders,   *)
(* children, activities, timers, cancellation) acts between them.          *)
(***************************************************************************)
EXTENDS Integers, Sequences, FiniteSets, TLC

(* ------------------------------ bounds --------------------------------- *)
\* number of signals the environment sends: in all, and on each channel
MaxSignals == 3
MaxFlowSignals == 2
MaxStateChanges == 1
MaxConfigUpdates == 1
\* the longest time, in days, between two readings of the workflow clock
MaxElapsed == 2
\* sync failures are injected only while ErrorCount is below this cap
MaxErrorCount == 2

(* --------------------------- program values ---------------------------- *)
\* time is counted in days; 24 * time.Hour
Day == 1
\* LastError is kept as its age when the clock was last read, which stops
\* growing once it is more than a day; the zero time.Time of a fresh state
\* is older than that
Older == Day + 1
ZeroTime == Older

Nil == [nil |-> TRUE]

NullEngine == "CH_ENGINE_NULL"
MergeEngine == "CH_ENGINE_REPLACING_MERGE_TREE"
ResyncSuffix == "_resync"

\* identifiers are sequences of name parts, so that appending and trimming
\* the suffix are real string operations
TM(src, dst, eng) ==
    [SourceTableIdentifier |-> src, DestinationTableIdentifier |-> dst, Engine |-> eng]

mA == TM("a", <<"A">>, MergeEngine)
mB == TM("b", <<"B">>, NullEngine)
mC == TM("c", <<"C">>, MergeEngine)
\* a serving table whose own name ends in the suffix
mR == TM("a", <<"A", ResyncSuffix>>, MergeEngine)
\* same destination as mA under another source
mD == TM("d", <<"A">>, MergeEngine)


Knobs(n) ==
    [BatchSize |-> n, IdleTimeout |-> n, SnapshotNumRowsPerPartition |-> n,
     SnapshotMaxParallelWorkers |-> n, SnapshotNumTablesInParallel |-> n]

CfgUpdate(k, nos, add, rem, env) ==
    [BatchSize |-> k.BatchSize, IdleTimeout |-> k.IdleTimeout,
     NumberOfSyncs |-> nos, UpdatedEnv |-> env,
     SnapshotNumRowsPerPartition |-> k.SnapshotNumRowsPerPartition,
     SnapshotMaxParallelWorkers |-> k.SnapshotMaxParallelWorkers,
     SnapshotNumTablesInParallel |-> k.SnapshotNumTablesInParallel,
     AdditionalTables |-> add, RemovedTables |-> rem]

NoEnv == [k \in {} |-> "v"]
EnvX == [k \in {"X"} |-> "v2"]

\* the config deltas the environment may send as CDCDynamicProperties:
\* one new table, and a delta with an overlapping addition, a removal and
\* new options
ConfigUpdates ==
    { CfgUpdate(Knobs(0), 1, <<mC>>, <<>>, NoEnv),
      CfgUpdate(Knobs(2), 0 - 1, <<mD>>, <<mB>>, EnvX) }

FlowSignals == {"NoopSignal", "PauseSignal"}
RequestedFlowStates ==
    {"STATUS_PAUSED", "STATUS_RUNNING", "STATUS_TERMINATING", "STATUS_RESYNC"}

\* the classes of error of a failed SyncFlow, as the callback tells them
\* apart (lines 764, 774); cancellation is told apart before (line 752)
SyncErrors == {"panic", "application", "sqlstate55006", "nonapplication"}

(* ------------------------------ state ---------------------------------- *)
VARIABLES
    cfg,                        \* *protos.FlowConnectionConfigs of the run
    state,                      \* *CDCFlowWorkflowState of the run, or Nil
    pc,                         \* where the workflow coroutine is suspended
    outcome,                    \* how the run ended
    flowSignalChan,             \* model.FlowSignal channel
    flowSignalStateChangeChan,  \* model.FlowSignalStateChange channel
    cdcPropertiesSignalChan,    \* model.CDCDynamicPropertiesSignal channel
    sent,                       \* signals sent so far, per channel
    ctxErr,                     \* ctx.Err() != nil
    fired,                      \* selector cases whose one-shot callback ran
    readyBranch,                \* the case that unblocked a blocked Select
    originalTableMappings,      \* local of the setup/snapshot phase
    setupFlowFuture, snapshotFlowFuture, renameTablesFuture,
    childAddTablesCDCFlowFuture,
    activityFuture,             \* the activity the coroutine waits on with Get
    syncFlowFuture, sleepFuture,
    finished, finishedError,
    catalogStatus,              \* status the catalog holds
    catalogConfig,              \* config the catalog holds
    catalogDown,                \* the catalog activities fail for now
    calls,                      \* per run: children and activities started
    syncLive,                   \* SyncFlow activities started and not yet completed
    setupFlowInput, snapshotFlowInput, renameTablesInput,
    statusTrail,                \* per run: statuses passed to status-update calls
    runStart,                   \* what the State held when the run was entered
    obs,                        \* per run: what the callbacks have observed
    ch_s3_stage,                \* rows of the catalog table ch_s3_stage
    avroCalls,                  \* SetAvroStage / GetAvroStage calls made, with what they returned
    conn,                       \* MySqlConnector.conn: the stored connection, 0 for nil
    conns,                      \* the connections dialled so far, by number
    watched,                    \* the watcher goroutine holds the context of the call
    ctxDone,                    \* the context of the call is cancelled
    connPc,                     \* where the caller of the connector is
    connLocal,                  \* conn of connect and of withRetries
    tries,                      \* iterations of withRetries begun
    handed                      \* what connect last returned without error

stageVars == << ch_s3_stage, avroCalls >>
mysqlVars == << conn, conns, watched, ctxDone, connPc, connLocal, tries, handed >>

vars == << cfg, state, pc, outcome, flowSignalChan, flowSignalStateChangeChan,
           cdcPropertiesSignalChan, sent, ctxErr, fired, readyBranch,
           originalTableMappings, setupFlowFuture, snapshotFlowFuture,
           renameTablesFuture, childAddTablesCDCFlowFuture, activityFuture,
           syncFlowFuture, sleepFuture, finished, finishedError,
           catalogStatus, catalogConfig, catalogDown, calls, syncLive, setupFlowInput,
           snapshotFlowInput, renameTablesInput, statusTrail, runStart, obs,
           ch_s3_stage, avroCalls,
           conn, conns, watched, ctxDone, connPc, connLocal, tries, handed >>

chanVars == << flowSignalChan, flowSignalStateChangeChan, cdcPropertiesSignalChan, sent >>
setupVars == << originalTableMappings, setupFlowFuture, snapshotFlowFuture,
                renameTablesFuture, setupFlowInput, snapshotFlowInput, renameTablesInput >>
mainVars == << syncFlowFuture, sleepFuture, finished, finishedError >>
updVars == << childAddTablesCDCFlowFuture, activityFuture >>

(* ------------------------- pure helper functions ----------------------- *)
Min(a, b) == IF a < b THEN a ELSE b

\* mapping.DestinationTableIdentifier += "_resync"
AppendSuffix(name) == Append(name, ResyncSuffix)

\* a trim that takes every trailing suffix, as strings.TrimRight would
TrimSuffixAll(name) ==
    IF Len(name) > 1 /\ name[Len(name)] = ResyncSuffix /\ name[Len(name) - 1] = ResyncSuffix
    THEN SubSeq(name, 1, Len(name) - 2)
    ELSE IF Len(name) > 0 /\ name[Len(name)] = ResyncSuffix
    THEN SubSeq(name, 1, Len(name) - 1)
    ELSE name

\* strings.TrimSuffix(oldName, "_resync"): removes one trailing suffix, if any
TrimSuffix(name) ==
    IF Len(name) > 0 /\ name[Len(name)] = ResyncSuffix
    THEN SubSeq(name, 1, Len(name) - 1)
    ELSE name

\* maps.Copy(dst, src)
MapsCopy(dst, src) ==
    [k \in DOMAIN dst \cup DOMAIN src |-> IF k \in DOMAIN src THEN src[k] ELSE dst[k]]

\* slices.DeleteFunc / a filtering pass that keeps the order
RECURSIVE SeqFilterOut(_, _)
SeqFilterOut(s, removedSrc) ==
    IF s = <<>> THEN <<>>
    ELSE IF Head(s).SourceTableIdentifier \in removedSrc
         THEN SeqFilterOut(Tail(s), removedSrc)
         ELSE <<Head(s)>> \o SeqFilterOut(Tail(s), removedSrc)

Range(s) == { s[i] : i \in DOMAIN s }

\* numeric id of a source table in the source database
TableOid(src) ==
    CASE src = "a" -> 1 [] src = "b" -> 2 [] src = "c" -> 3 [] OTHER -> 4

\* SetupFlowWorkflow output: source table id -> qualified name, for the
\* mappings of the config it was given
SetupFlowOutput(c) ==
    LET srcs == { m.SourceTableIdentifier : m \in Range(c.TableMappings) }
    IN  [id \in { TableOid(s) : s \in srcs } |->
            CHOOSE s \in srcs : TableOid(s) = id]

\* model.FlowSignalHandler: a Pause is taken only from Noop, a Noop only
\* from Pause; every other combination keeps the active signal
FlowSignalHandler(activeSignal, v) ==
    CASE v = "PauseSignal" /\ activeSignal = "NoopSignal" -> v
      [] v = "NoopSignal" /\ activeSignal = "PauseSignal" -> v
      [] OTHER -> activeSignal

\* internal.AdditionalTablesHasOverlap: a source or a destination identifier
\* of the additional tables is already one of the current mappings
AdditionalTablesHasOverlap(current, additional) ==
    \E m \in Range(current), a \in Range(additional) :
        \/ m.SourceTableIdentifier = a.SourceTableIdentifier
        \/ m.DestinationTableIdentifier = a.DestinationTableIdentifier

NewCDCFlowWorkflowState(c) ==
    [FlowConfigUpdate |-> Nil,
     SyncFlowOptions |-> [BatchSize |-> c.MaxBatchSize,
                          IdleTimeoutSeconds |-> c.IdleTimeoutSeconds,
                          TableMappings |-> c.TableMappings,
                          SrcTableIdNameMapping |-> [k \in {} |-> "a"],
                          NumberOfSyncs |-> 0],
     DropFlowInput |-> Nil,
     LastError |-> ZeroTime,
     ErrorCount |-> 0,
     ActiveSignal |-> "NoopSignal",
     CurrentFlowStatus |-> "STATUS_SETUP",
     SnapshotNumRowsPerPartition |-> c.SnapshotNumRowsPerPartition,
     SnapshotMaxParallelWorkers |-> c.SnapshotMaxParallelWorkers,
     SnapshotNumTablesInParallel |-> c.SnapshotNumTablesInParallel]

updateFlowConfigWithLatestSettings(c, s) ==
    [c EXCEPT !.MaxBatchSize = s.SyncFlowOptions.BatchSize,
              !.IdleTimeoutSeconds = s.SyncFlowOptions.IdleTimeoutSeconds,
              !.TableMappings = s.SyncFlowOptions.TableMappings,
              !.SnapshotNumRowsPerPartition = s.SnapshotNumRowsPerPartition,
              !.SnapshotMaxParallelWorkers = s.SnapshotMaxParallelWorkers,
              !.SnapshotNumTablesInParallel = s.SnapshotNumTablesInParallel]

\* an updateStatus whose assignment depends on the catalog write
updateStatusIfStored(s, newStatus) ==
    IF catalogDown THEN s ELSE [s EXCEPT !.CurrentFlowStatus = newStatus]

\* state.updateStatus: the assignment; the catalog call is UpdateStatusCall
updateStatus(s, newStatus) == [s EXCEPT !.CurrentFlowStatus = newStatus]

NewDropFlowInput(c, resync) ==
    [FlowJobName |-> c.FlowJobName, FlowConnectionConfigs |-> c, Resync |-> resync]

\* model.SleepFuture(ctx, d): a timer of d minutes; once it has fired the
\* duration plays no part
SleepFuture(d) == [minutes |-> d, fired |-> FALSE]
NoTimer == [minutes |-> 0, fired |-> FALSE]
TimerFired == [minutes |-> 0, fired |-> TRUE]

NoCalls == [SetupFlow |-> 0, SnapshotFlow |-> 0, RenameTables |-> 0, SyncFlow |-> 0,
            AddTablesToPublication |-> 0, AddTablesCDCFlow |-> 0,
            RemoveTablesFromPublication |-> 0, RemoveTablesFromRawTable |-> 0,
            RemoveTablesFromCatalog |-> 0]

NoObs == [dropRequestInMainLoop |-> FALSE, syncSucceeded |-> FALSE,
          sleepFired |-> FALSE, errorReset |-> FALSE, processing |-> Nil]

(* ------------------------------ selectors ------------------------------ *)
SelectorOf(p) ==
    CASE p = "pause_select" -> <<"done", "flowSignal", "stateChange", "cdcProps">>
      [] p = "addtables_select" -> <<"done", "stateChange", "addTables">>
      [] p \in {"setup_select", "snapshot_select", "rename_select"} ->
            <<"done", "stateChange", "setup", "snapshot", "rename">>
      [] p \in {"main_select", "main_drain", "main_drain2"} ->
            <<"done", "sync", "flowSignal", "stateChange", "cdcProps", "sleep">>
      [] OTHER -> <<>>

FutureReady(f) == f \notin {"none", "running"}

Ready(c) ==
    CASE c = "done" -> ctxErr /\ "done" \notin fired
      [] c = "flowSignal" -> flowSignalChan # <<>>
      [] c = "stateChange" -> flowSignalStateChangeChan # <<>>
      [] c = "cdcProps" -> cdcPropertiesSignalChan # <<>>
      [] c = "setup" -> FutureReady(setupFlowFuture) /\ "setup" \notin fired
      [] c = "snapshot" -> FutureReady(snapshotFlowFuture) /\ "snapshot" \notin fired
      [] c = "rename" -> FutureReady(renameTablesFuture) /\ "rename" \notin fired
      [] c = "addTables" -> FutureReady(childAddTablesCDCFlowFuture) /\ "addTables" \notin fired
      [] c = "sync" -> FutureReady(syncFlowFuture) /\ "sync" \notin fired
      [] c = "sleep" -> sleepFuture.fired /\ "sleep" \notin fired
      [] OTHER -> FALSE

\* Selector.HasPending
HasPending(p) == \E i \in DOMAIN SelectorOf(p) : Ready(SelectorOf(p)[i])

\* the coroutine is blocked inside Select: it waits and no case is ready
BlockedInSelect ==
    pc \in {"pause_select", "addtables_select", "setup_select", "snapshot_select",
            "rename_select", "main_select"} /\ ~HasPending(pc)

\* Selector.Select: a blocked Select runs the case that became ready first,
\* otherwise the first ready case in the order the cases were added
Selected(p) ==
    IF readyBranch # "none" THEN readyBranch
    ELSE LET cases == SelectorOf(p)
             i == CHOOSE i \in DOMAIN cases :
                     /\ Ready(cases[i])
                     /\ \A j \in 1..(i - 1) : ~Ready(cases[j])
         IN  cases[i]

\* an event that makes case c ready claims a blocked Select
Arrive(c) ==
    readyBranch' =
        IF BlockedInSelect /\ readyBranch = "none" /\ c \in Range(SelectorOf(pc))
        THEN c ELSE readyBranch

\* guard and bookkeeping common to the callbacks of a Select at p
Selects(p, c) ==
    /\ pc = p
    /\ HasPending(p)
    /\ Selected(p) = c
    /\ readyBranch' = "none"

(* ------------------------------ catalog -------------------------------- *)
\* a status assignment that leaves the catalog call out
UpdateStatusCallSkipped(status) ==
    /\ catalogStatus' = catalogStatus
    /\ statusTrail' = statusTrail

\* syncStatusToCatalog: the call is made; its failure is only logged
UpdateStatusCall(status) ==
    /\ catalogStatus' = IF catalogDown THEN catalogStatus ELSE status
    /\ statusTrail' = Append(statusTrail, status)

NoStatusCall == UNCHANGED << catalogStatus, statusTrail >>

\* uploadConfigToCatalog
uploadConfigToCatalog(c) == catalogConfig' = IF catalogDown THEN catalogConfig ELSE c

(* ------------------------------- Init ---------------------------------- *)
NewConfig(tms, resync, snapshotOnly) ==
    [FlowJobName |-> "m1", TableMappings |-> tms,
     DoInitialSnapshot |-> TRUE, InitialSnapshotOnly |-> snapshotOnly, Resync |-> resync,
     MaxBatchSize |-> 1, IdleTimeoutSeconds |-> 1,
     SnapshotNumRowsPerPartition |-> 1, SnapshotMaxParallelWorkers |-> 1,
     SnapshotNumTablesInParallel |-> 1, Env |-> NoEnv]

\* the configs a mirror is created with: a plain mirror, and a resync of a
\* snapshot-only mirror whose serving table name ends in the suffix
InitialConfigs ==
    { NewConfig(<<mA, mB>>, FALSE, FALSE),
      NewConfig(<<mR, mB>>, TRUE, TRUE) }

(* ------------------------- the MySQL connector ------------------------- *)
\* connections the model lets the connector dial
MaxDials == 2
\* for range 3
Retries == 3

\* NewMySqlConnector: no connection stored, the watcher goroutine on
\* context.Background(), no call under way
NewMySqlConnector ==
    /\ conn = 0
    /\ conns = <<>>
    /\ watched = FALSE
    /\ ctxDone = FALSE
    /\ connPc = "idle"
    /\ connLocal = 0
    /\ tries = 0
    /\ handed = [conn |-> 0, sqlMode |-> FALSE]

\* a caller enters withRetries with a fresh context: watchCtx hands the
\* context to the watcher goroutine (lines 217-219, 90-91)
watchCtx ==
    /\ connPc = "idle"
    /\ watched' = TRUE
    /\ ctxDone' = FALSE
    /\ tries' = 0
    /\ connLocal' = 0
    /\ connPc' = "load"
    /\ UNCHANGED << conn, conns, handed >>
    /\ UNCHANGED << cfg, state, pc, outcome, chanVars, ctxErr, fired, readyBranch,
                    setupVars, updVars, mainVars, catalogStatus, catalogConfig,
                    catalogDown, calls, syncLive, statusTrail, runStart, obs, stageVars >>

\* the context of the call under way is cancelled
CancelContext ==
    /\ connPc # "idle" /\ ~ctxDone
    /\ ctxDone' = TRUE
    /\ UNCHANGED << conn, conns, watched, connPc, connLocal, tries, handed >>
    /\ UNCHANGED << cfg, state, pc, outcome, chanVars, ctxErr, fired, readyBranch,
                    setupVars, updVars, mainVars, catalogStatus, catalogConfig,
                    catalogDown, calls, syncLive, statusTrail, runStart, obs, stageVars >>

\* the goroutine of NewMySqlConnector: on ctx.Done() it goes back to
\* context.Background() and closes the stored connection (lines 70-77)
watcher ==
    /\ watched /\ ctxDone
    /\ watched' = FALSE
    /\ conn' = 0
    /\ conns' = IF conn = 0 THEN conns ELSE [conns EXCEPT ![conn].open = FALSE]
    /\ UNCHANGED << ctxDone, connPc, connLocal, tries, handed >>
    /\ UNCHANGED << cfg, state, pc, outcome, chanVars, ctxErr, fired, readyBranch,
                    setupVars, updVars, mainVars, catalogStatus, catalogConfig,
                    catalogDown, calls, syncLive, statusTrail, runStart, obs, stageVars >>

\* connect, one step at a time: Load, ConnectWithDialer, Store, ctx.Err(),
\* the SET statements (lines 134-212)
connect ==
    /\ \/ /\ connPc = "load"
          /\ connLocal' = conn
          /\ IF conn # 0
             THEN \* return conn, nil
                  /\ handed' = [conn |-> conn, sqlMode |-> conns[conn].sqlMode]
                  /\ connPc' = "yield"
             ELSE connPc' = "dial" /\ UNCHANGED handed
          /\ UNCHANGED << conn, conns, watched, ctxDone, tries >>
       \/ /\ connPc = "dial"
          /\ \/ /\ Len(conns) < MaxDials
                \* a fresh connection: open, its session with the server's sql_mode
                /\ conns' = Append(conns, [open |-> TRUE, sqlMode |-> FALSE])
                /\ connLocal' = Len(conns) + 1
                /\ connPc' = "store" /\ UNCHANGED handed
             \/ /\ connPc' = "failed" /\ UNCHANGED handed
                /\ UNCHANGED << conns, connLocal >>
          /\ UNCHANGED << conn, watched, ctxDone, tries >>
       \/ /\ connPc = "store"
          /\ conn' = connLocal
          /\ connPc' = "check"
          /\ UNCHANGED << conns, watched, ctxDone, connLocal, tries, handed >>
       \/ /\ connPc = "check"
          /\ IF ctxDone THEN connPc' = "failed" /\ UNCHANGED handed ELSE connPc' = "set" /\ UNCHANGED handed
          /\ UNCHANGED << conn, conns, watched, ctxDone, connLocal, tries >>
       \/ /\ connPc = "set"
          /\ \/ \* SET sql_mode fails: always so on a closed connection
                /\ connPc' = "failed" /\ UNCHANGED handed
                /\ UNCHANGED conns
             \/ \* SET sql_mode succeeds, the SET SESSION after it fails
                /\ conns[connLocal].open
                /\ conns' = [conns EXCEPT ![connLocal].sqlMode = TRUE]
                /\ connPc' = "failed" /\ UNCHANGED handed
             \/ \* both statements succeed
                /\ conns[connLocal].open
                /\ conns' = [conns EXCEPT ![connLocal].sqlMode = TRUE]
                /\ handed' = [conn |-> connLocal, sqlMode |-> TRUE]
                /\ connPc' = "yield"
          /\ UNCHANGED << conn, watched, ctxDone, connLocal, tries >>
    /\ UNCHANGED << cfg, state, pc, outcome, chanVars, ctxErr, fired, readyBranch,
                    setupVars, updVars, mainVars, catalogStatus, catalogConfig,
                    catalogDown, calls, syncLive, statusTrail, runStart, obs, stageVars >>

\* the body of the loop over withRetries and what the iterator does next:
\* the consumer returns on an error or when its statement is through, and
\* the deferred function of watchCtx runs; on mysql.ErrBadConn it goes on,
\* the connection is taken out of the connector and closed and connect is
\* tried again, three times in all (lines 217-229, 231-245, 92-94)
withRetries ==
    /\ connPc \in {"yield", "failed"}
    /\ \E badConn \in BOOLEAN :
          /\ badConn => connPc = "yield"
          /\ IF badConn
             THEN /\ conn' = IF conn = connLocal THEN 0 ELSE conn
                  /\ conns' = [conns EXCEPT ![connLocal].open = FALSE]
                  /\ tries' = tries + 1
                  /\ IF tries + 1 < Retries
                     THEN connPc' = "load" /\ UNCHANGED watched
                     ELSE connPc' = "idle" /\ watched' = FALSE
             ELSE /\ connPc' = "idle"
                  /\ watched' = FALSE
                  /\ UNCHANGED << conn, conns, tries >>
    /\ UNCHANGED << ctxDone, connLocal, handed >>
    /\ UNCHANGED << cfg, state, pc, outcome, chanVars, ctxErr, fired, readyBranch,
                    setupVars, updVars, mainVars, catalogStatus, catalogConfig,
                    catalogDown, calls, syncLive, statusTrail, runStart, obs, stageVars >>

\* a workflow started with no State and nothing sent to it
InitRun ==
    /\ state = Nil
    /\ pc = "entry"
    /\ outcome = "running"
    /\ flowSignalChan = <<>>
    /\ flowSignalStateChangeChan = <<>>
    /\ cdcPropertiesSignalChan = <<>>
    /\ sent = [flowSignal |-> 0, stateChange |-> 0, cdcProps |-> 0]
    /\ ctxErr = FALSE
    /\ fired = {}
    /\ readyBranch = "none"
    /\ originalTableMappings = <<>>
    /\ setupFlowFuture = "none"
    /\ snapshotFlowFuture = "none"
    /\ renameTablesFuture = "none"
    /\ childAddTablesCDCFlowFuture = "none"
    /\ activityFuture = "none"
    /\ syncFlowFuture = "none"
    /\ sleepFuture = NoTimer
    /\ finished = FALSE
    /\ finishedError = FALSE
    /\ catalogStatus = "none"
    /\ catalogConfig = Nil
    /\ catalogDown = FALSE
    /\ calls = NoCalls
    /\ syncLive = 0
    /\ setupFlowInput = Nil
    /\ snapshotFlowInput = Nil
    /\ renameTablesInput = Nil
    /\ statusTrail = <<>>
    /\ runStart = [ErrorCount |-> 0, PendingUpdate |-> FALSE]
    /\ obs = NoObs
    /\ ch_s3_stage = {}
    /\ avroCalls = <<>>
    /\ NewMySqlConnector

Init == cfg \in InitialConfigs /\ InitRun

(* --------------------------- run outcomes ------------------------------ *)
\* how a run ends: "return" (state, nil), "return_cancelled" (ctx.Err()),
\* "return_failed" (another error), "can_cdc" and "can_drop" (continue-as-new
\* into CDCFlowWorkflow / DropFlowWorkflow)
Ends(o) == pc' = "done" /\ outcome' = o
Stays(p) == pc' = p /\ outcome' = outcome

DropRequested(s) == s.ActiveSignal \in {"TerminateSignal", "ResyncSignal"}

Upload(c) == IF c = Nil THEN UNCHANGED catalogConfig ELSE uploadConfigToCatalog(c)

(* ---------------------------- environment ------------------------------ *)
Alive == outcome = "running"

MaySend == Alive /\ sent.flowSignal + sent.stateChange + sent.cdcProps < MaxSignals

SendFlowSignal ==
    /\ MaySend /\ sent.flowSignal < MaxFlowSignals
    /\ \E v \in FlowSignals : flowSignalChan' = Append(flowSignalChan, v)
    /\ sent' = [sent EXCEPT !.flowSignal = @ + 1]
    /\ Arrive("flowSignal")
    /\ UNCHANGED << cfg, state, pc, outcome, flowSignalStateChangeChan,
                    cdcPropertiesSignalChan, ctxErr, catalogDown, stageVars, mysqlVars, fired, setupVars, updVars, mainVars, catalogStatus, catalogConfig, calls, syncLive, statusTrail, runStart, obs >>

SendFlowStateChange ==
    /\ MaySend /\ sent.stateChange < MaxStateChanges
    /\ \E r \in RequestedFlowStates :
          flowSignalStateChangeChan' = Append(flowSignalStateChangeChan, r)
    /\ sent' = [sent EXCEPT !.stateChange = @ + 1]
    /\ Arrive("stateChange")
    /\ UNCHANGED << cfg, state, pc, outcome, flowSignalChan,
                    cdcPropertiesSignalChan, ctxErr, catalogDown, stageVars, mysqlVars, fired, setupVars, updVars, mainVars, catalogStatus, catalogConfig, calls, syncLive, statusTrail, runStart, obs >>

SendCDCDynamicProperties ==
    /\ MaySend /\ sent.cdcProps < MaxConfigUpdates
    /\ \E u \in ConfigUpdates :
          cdcPropertiesSignalChan' = Append(cdcPropertiesSignalChan, u)
    /\ sent' = [sent EXCEPT !.cdcProps = @ + 1]
    /\ Arrive("cdcProps")
    /\ UNCHANGED << cfg, state, pc, outcome, flowSignalChan,
                    flowSignalStateChangeChan, ctxErr, catalogDown, stageVars, mysqlVars, fired, setupVars, updVars, mainVars, catalogStatus, catalogConfig, calls, syncLive, statusTrail, runStart, obs >>

\* the workflow is cancelled: ctx.Done() is closed
CancelWorkflow ==
    /\ Alive /\ ~ctxErr
    /\ ctxErr' = TRUE
    /\ Arrive("done")
    /\ UNCHANGED << cfg, state, pc, outcome, chanVars, fired, setupVars, updVars,
                    mainVars, catalogStatus, catalogConfig, catalogDown, stageVars, mysqlVars, calls,
                    syncLive, statusTrail, runStart, obs >>

SetupFlowCompletes ==
    /\ Alive /\ setupFlowFuture = "running"
    /\ \E r \in {"ok", "err"} : setupFlowFuture' = r
    /\ Arrive("setup")
    /\ UNCHANGED << cfg, state, pc, outcome, chanVars, ctxErr, catalogDown, stageVars, mysqlVars, fired,
                    originalTableMappings, snapshotFlowFuture, renameTablesFuture,
                    setupFlowInput, snapshotFlowInput, renameTablesInput, updVars,
                    mainVars, catalogStatus, catalogConfig, calls, syncLive, statusTrail,
                    runStart, obs >>

SnapshotFlowCompletes ==
    /\ Alive /\ snapshotFlowFuture = "running"
    /\ \E r \in {"ok", "err"} : snapshotFlowFuture' = r
    /\ Arrive("snapshot")
    /\ UNCHANGED << cfg, state, pc, outcome, chanVars, ctxErr, catalogDown, stageVars, mysqlVars, fired,
                    originalTableMappings, setupFlowFuture, renameTablesFuture,
                    setupFlowInput, snapshotFlowInput, renameTablesInput, updVars,
                    mainVars, catalogStatus, catalogConfig, calls, syncLive, statusTrail,
                    runStart, obs >>

RenameTablesCompletes ==
    /\ Alive /\ renameTablesFuture = "running"
    /\ \E r \in {"ok", "err"} : renameTablesFuture' = r
    /\ Arrive("rename")
    /\ UNCHANGED << cfg, state, pc, outcome, chanVars, ctxErr, catalogDown, stageVars, mysqlVars, fired,
                    originalTableMappings, setupFlowFuture, snapshotFlowFuture,
                    setupFlowInput, snapshotFlowInput, renameTablesInput, updVars,
                    mainVars, catalogStatus, catalogConfig, calls, syncLive, statusTrail,
                    runStart, obs >>

(* ------------------- entry: NewCDCFlowWorkflowState -------------------- *)
\* state == nil: a fresh State, with its status-update call
EntryState == IF state = Nil THEN NewCDCFlowWorkflowState(cfg) ELSE state
EntryStatusCall ==
    IF state = Nil THEN UpdateStatusCall("STATUS_SETUP") ELSE NoStatusCall

\* the ErrorCount a run is entered with, and whether a config update was
\* already stored
RunStart(s) == [ErrorCount |-> s.ErrorCount, PendingUpdate |-> s.FlowConfigUpdate # Nil]

\* a return that writes the status to the catalog once more
EntryCompletedWritesStatus ==
    /\ pc = "entry"
    /\ EntryState.CurrentFlowStatus = "STATUS_COMPLETED"
    /\ state' = EntryState
    /\ UpdateStatusCall("STATUS_COMPLETED")
    /\ runStart' = RunStart(EntryState)
    /\ Ends("return")
    /\ UNCHANGED << cfg, chanVars, ctxErr, catalogDown, stageVars, mysqlVars, fired, readyBranch, setupVars, updVars,
                    mainVars, catalogConfig, calls, syncLive, obs >>

\* if state.CurrentFlowStatus == STATUS_COMPLETED { return state, nil }
EntryCompleted ==
    /\ pc = "entry"
    /\ EntryState.CurrentFlowStatus = "STATUS_COMPLETED"
    /\ state' = EntryState
    /\ EntryStatusCall
    /\ runStart' = RunStart(EntryState)
    /\ Ends("return")
    /\ UNCHANGED << cfg, chanVars, ctxErr, catalogDown, stageVars, mysqlVars, fired, readyBranch, setupVars, updVars,
                    mainVars, catalogConfig, calls, syncLive, obs >>

(* ------------------------ setup / snapshot phase ----------------------- *)
\* the suffix with the engine test inverted
AddResyncSuffixInverted(tms) ==
    [i \in DOMAIN tms |->
        IF tms[i].Engine = NullEngine
        THEN [tms[i] EXCEPT !.DestinationTableIdentifier = AppendSuffix(@)]
        ELSE tms[i]]

\* lines 545-550: the suffix on every mapping whose engine is not NULL
AddResyncSuffix(tms) ==
    [i \in DOMAIN tms |->
        IF tms[i].Engine # NullEngine
        THEN [tms[i] EXCEPT !.DestinationTableIdentifier = AppendSuffix(@)]
        ELSE tms[i]]

\* lines 675-690: the rename option of every mapping
RenameTableOptions(tms) ==
    [i \in DOMAIN tms |->
        IF tms[i].Engine # NullEngine
        THEN [CurrentName |-> tms[i].DestinationTableIdentifier,
              NewName |-> TrimSuffix(tms[i].DestinationTableIdentifier)]
        ELSE [CurrentName |-> tms[i].DestinationTableIdentifier,
              NewName |-> tms[i].DestinationTableIdentifier]]

\* line 683: mapping.DestinationTableIdentifier = newName
RemoveResyncSuffix(tms) ==
    [i \in DOMAIN tms |->
        IF tms[i].Engine # NullEngine
        THEN [tms[i] EXCEPT !.DestinationTableIdentifier = TrimSuffix(@)]
        ELSE tms[i]]

\* entry with CurrentFlowStatus != RUNNING and no pause: start SetupFlow
EntrySetup ==
    /\ pc = "entry"
    /\ EntryState.CurrentFlowStatus # "STATUS_COMPLETED"
    /\ EntryState.ActiveSignal # "PauseSignal"
    /\ EntryState.CurrentFlowStatus # "STATUS_RUNNING"
    /\ EntryStatusCall
    /\ runStart' = RunStart(EntryState)
    /\ originalTableMappings' = cfg.TableMappings
    /\ LET tms == IF cfg.Resync
                  THEN AddResyncSuffix(EntryState.SyncFlowOptions.TableMappings)
                  ELSE EntryState.SyncFlowOptions.TableMappings
           c1 == IF cfg.Resync THEN [cfg EXCEPT !.TableMappings = tms] ELSE cfg
       IN  /\ state' = [EntryState EXCEPT !.SyncFlowOptions.TableMappings = tms]
           /\ cfg' = c1
           /\ setupFlowInput' = c1
    /\ setupFlowFuture' = "running"
    /\ calls' = [calls EXCEPT !.SetupFlow = @ + 1]
    /\ syncLive' = syncLive
    /\ fired' = {}
    /\ Stays("setup_select")
    /\ UNCHANGED << chanVars, ctxErr, catalogDown, stageVars, mysqlVars, readyBranch, snapshotFlowFuture,
                    renameTablesFuture, snapshotFlowInput, renameTablesInput, updVars,
                    mainVars, catalogConfig, obs >>

SetupPhasePcs == {"setup_select", "snapshot_select", "rename_select"}

\* a callback that syncs the State's mappings to the config on Resync as the
\* other selectors do
StateChangeInSetupSynced(val, s, c, orig) ==
    CASE val = "STATUS_TERMINATING" ->
            LET s1 == [s EXCEPT !.ActiveSignal = "TerminateSignal"]
                dropCfg == updateFlowConfigWithLatestSettings(c, s1)
            IN  [state |-> [s1 EXCEPT !.DropFlowInput = NewDropFlowInput(dropCfg, FALSE)],
                 cfg |-> c, upload |-> dropCfg]
      [] val = "STATUS_RESYNC" ->
            LET s1 == [s EXCEPT !.ActiveSignal = "ResyncSignal"]
                c1 == [c EXCEPT !.Resync = TRUE, !.DoInitialSnapshot = TRUE]
                resyncCfg == updateFlowConfigWithLatestSettings(c1, s1)
            IN  [state |-> [s1 EXCEPT !.DropFlowInput = NewDropFlowInput(resyncCfg, TRUE)],
                 cfg |-> c1, upload |-> resyncCfg]
      [] OTHER -> [state |-> s, cfg |-> c, upload |-> Nil]

\* a callback that takes a Paused request as a pause
StateChangeInSetupPausing(val, s, c, orig) ==
    CASE val = "STATUS_TERMINATING" ->
            LET s1 == [s EXCEPT !.ActiveSignal = "TerminateSignal"]
                dropCfg == updateFlowConfigWithLatestSettings(c, s1)
            IN  [state |-> [s1 EXCEPT !.DropFlowInput = NewDropFlowInput(dropCfg, FALSE)],
                 cfg |-> c, upload |-> dropCfg]
      [] val = "STATUS_RESYNC" ->
            LET c1 == [c EXCEPT !.Resync = TRUE, !.DoInitialSnapshot = TRUE,
                                !.TableMappings = orig]
            IN  [state |-> [s EXCEPT !.ActiveSignal = "ResyncSignal",
                                     !.DropFlowInput = NewDropFlowInput(c1, TRUE)],
                 cfg |-> c1, upload |-> c1]
      [] val = "STATUS_PAUSED" ->
            [state |-> [s EXCEPT !.ActiveSignal = "PauseSignal"], cfg |-> c, upload |-> Nil]
      [] OTHER -> [state |-> s, cfg |-> c, upload |-> Nil]

\* a callback that hands the original mappings to the drop on Terminating
StateChangeInSetupOriginal(val, s, c, orig) ==
    CASE val = "STATUS_TERMINATING" ->
            LET s1 == [s EXCEPT !.ActiveSignal = "TerminateSignal"]
                dropCfg == [updateFlowConfigWithLatestSettings(c, s1) EXCEPT
                               !.TableMappings = orig]
            IN  [state |-> [s1 EXCEPT !.DropFlowInput = NewDropFlowInput(dropCfg, FALSE)],
                 cfg |-> c, upload |-> dropCfg]
      [] val = "STATUS_RESYNC" ->
            LET c1 == [c EXCEPT !.Resync = TRUE, !.DoInitialSnapshot = TRUE,
                                !.TableMappings = orig]
            IN  [state |-> [s EXCEPT !.ActiveSignal = "ResyncSignal",
                                     !.DropFlowInput = NewDropFlowInput(c1, TRUE)],
                 cfg |-> c1, upload |-> c1]
      [] OTHER -> [state |-> s, cfg |-> c, upload |-> Nil]

\* the FlowStateChange callback of the Setup/Snapshot selector
StateChangeInSetup(val, s, c, orig) ==
    CASE val = "STATUS_TERMINATING" ->
            LET s1 == [s EXCEPT !.ActiveSignal = "TerminateSignal"]
                dropCfg == updateFlowConfigWithLatestSettings(c, s1)
            IN  [state |-> [s1 EXCEPT !.DropFlowInput = NewDropFlowInput(dropCfg, FALSE)],
                 cfg |-> c, upload |-> dropCfg]
      [] val = "STATUS_RESYNC" ->
            LET c1 == [c EXCEPT !.Resync = TRUE, !.DoInitialSnapshot = TRUE,
                                !.TableMappings = orig]
            IN  [state |-> [s EXCEPT !.ActiveSignal = "ResyncSignal",
                                     !.DropFlowInput = NewDropFlowInput(c1, TRUE)],
                 cfg |-> c1, upload |-> c1]
      [] OTHER -> [state |-> s, cfg |-> c, upload |-> Nil]

\* the checks after every Select of the phase (lines 612-620)
AfterSetupPhaseSelect(s, p) ==
    IF DropRequested(s) THEN Ends("can_drop")
    ELSE IF ctxErr THEN Ends("return_cancelled")
    ELSE Stays(p)

SetupPhaseStateChange ==
    \E p \in SetupPhasePcs :
        /\ Selects(p, "stateChange")
        /\ LET r == StateChangeInSetup(Head(flowSignalStateChangeChan), state, cfg,
                                       originalTableMappings)
           IN  /\ state' = r.state
               /\ cfg' = r.cfg
               /\ Upload(r.upload)
               /\ AfterSetupPhaseSelect(r.state, p)
        /\ flowSignalStateChangeChan' = Tail(flowSignalStateChangeChan)
        /\ UNCHANGED << flowSignalChan, cdcPropertiesSignalChan, sent, ctxErr, catalogDown, stageVars, mysqlVars, fired,
                        setupVars, updVars, mainVars, catalogStatus, calls, syncLive,
                        statusTrail, runStart, obs >>

SetupPhaseCtxDone ==
    \E p \in SetupPhasePcs :
        /\ Selects(p, "done")
        /\ fired' = fired \cup {"done"}
        /\ AfterSetupPhaseSelect(state, p)
        /\ UNCHANGED << cfg, state, chanVars, ctxErr, catalogDown, stageVars, mysqlVars, setupVars, updVars, mainVars, catalogStatus, catalogConfig, calls, syncLive, statusTrail, runStart,
                        obs >>

\* the end of the phase with status Running whatever the config
SetupPhaseEndsRunning(s) ==
    /\ state' = updateStatus(s, "STATUS_RUNNING")
    /\ UpdateStatusCall("STATUS_RUNNING")
    /\ Ends("can_cdc")

\* the end of the phase with the status put back to SETUP
SetupPhaseEndsInSetup(s) ==
    /\ state' = updateStatus(s, "STATUS_SETUP")
    /\ UpdateStatusCall("STATUS_SETUP")
    /\ Ends("can_cdc")

\* lines 725-733: the end of the phase
SetupPhaseEnds(s) ==
    LET st == IF cfg.InitialSnapshotOnly THEN "STATUS_COMPLETED" ELSE "STATUS_RUNNING"
    IN  /\ state' = updateStatus(s, st)
        /\ UpdateStatusCall(st)
        /\ Ends("can_cdc")

\* a setup callback that does not store the output of SetupFlowWorkflow
SetupFlowCallbackOutputDropped ==
    /\ Selects("setup_select", "setup")
    /\ fired' = fired \cup {"setup"}
    /\ IF DropRequested(state) \/ ctxErr \/ setupFlowFuture = "err"
       THEN /\ IF DropRequested(state) THEN Ends("can_drop")
               ELSE IF ctxErr THEN Ends("return_cancelled")
               ELSE Ends("return_failed")
            /\ NoStatusCall
            /\ UNCHANGED << state, snapshotFlowFuture, snapshotFlowInput, calls, syncLive >>
       ELSE /\ state' = updateStatus(state, "STATUS_SNAPSHOT")
            /\ UpdateStatusCall("STATUS_SNAPSHOT")
            /\ snapshotFlowFuture' = "running"
            /\ snapshotFlowInput' = cfg
            /\ calls' = [calls EXCEPT !.SnapshotFlow = @ + 1]
            /\ syncLive' = syncLive
            /\ Stays("snapshot_select")
    /\ UNCHANGED << cfg, chanVars, ctxErr, catalogDown, stageVars, mysqlVars, originalTableMappings, setupFlowFuture,
                    renameTablesFuture, setupFlowInput, renameTablesInput, updVars,
                    mainVars, catalogConfig, runStart, obs >>

SetupFlowCallback ==
    /\ Selects("setup_select", "setup")
    /\ fired' = fired \cup {"setup"}
    /\ IF DropRequested(state) \/ ctxErr \/ setupFlowFuture = "err"
       THEN /\ IF DropRequested(state) THEN Ends("can_drop")
               ELSE IF ctxErr THEN Ends("return_cancelled")
               ELSE Ends("return_failed")
            /\ NoStatusCall
            /\ UNCHANGED << state, snapshotFlowFuture, snapshotFlowInput, calls, syncLive >>
       ELSE /\ state' = updateStatus(
                   [state EXCEPT !.SyncFlowOptions.SrcTableIdNameMapping =
                                     SetupFlowOutput(setupFlowInput)],
                   "STATUS_SNAPSHOT")
            /\ UpdateStatusCall("STATUS_SNAPSHOT")
            /\ snapshotFlowFuture' = "running"
            /\ snapshotFlowInput' = cfg
            /\ calls' = [calls EXCEPT !.SnapshotFlow = @ + 1]
            /\ syncLive' = syncLive
            /\ Stays("snapshot_select")
    /\ UNCHANGED << cfg, chanVars, ctxErr, catalogDown, stageVars, mysqlVars, originalTableMappings, setupFlowFuture,
                    renameTablesFuture, setupFlowInput, renameTablesInput, updVars,
                    mainVars, catalogConfig, runStart, obs >>

\* a snapshot callback that renames whether the run is a resync or not
SnapshotFlowCallbackAlwaysRenames ==
    /\ Selects("snapshot_select", "snapshot")
    /\ fired' = fired \cup {"snapshot"}
    /\ IF DropRequested(state) \/ ctxErr \/ snapshotFlowFuture = "err"
       THEN /\ IF DropRequested(state) THEN Ends("can_drop")
               ELSE IF ctxErr THEN Ends("return_cancelled")
               ELSE Ends("return_failed")
            /\ NoStatusCall
            /\ UNCHANGED << cfg, state, renameTablesFuture, renameTablesInput, calls, syncLive >>
       ELSE LET tms == state.SyncFlowOptions.TableMappings
            IN  /\ renameTablesInput' = RenameTableOptions(tms)
                /\ state' = [state EXCEPT !.SyncFlowOptions.TableMappings =
                                              RemoveResyncSuffix(tms)]
                /\ cfg' = [cfg EXCEPT !.TableMappings = RemoveResyncSuffix(tms)]
                /\ renameTablesFuture' = "running"
                /\ calls' = [calls EXCEPT !.RenameTables = @ + 1]
                /\ syncLive' = syncLive
                /\ NoStatusCall
                /\ Stays("rename_select")
    /\ UNCHANGED << chanVars, ctxErr, catalogDown, stageVars, mysqlVars, originalTableMappings, setupFlowFuture,
                    snapshotFlowFuture, setupFlowInput, snapshotFlowInput, updVars,
                    mainVars, catalogConfig, runStart, obs >>

SnapshotFlowCallback ==
    /\ Selects("snapshot_select", "snapshot")
    /\ fired' = fired \cup {"snapshot"}
    /\ IF DropRequested(state) \/ ctxErr \/ snapshotFlowFuture = "err"
       THEN /\ IF DropRequested(state) THEN Ends("can_drop")
               ELSE IF ctxErr THEN Ends("return_cancelled")
               ELSE Ends("return_failed")
            /\ NoStatusCall
            /\ UNCHANGED << cfg, state, renameTablesFuture, renameTablesInput, calls, syncLive >>
       ELSE IF cfg.Resync
       THEN \* the mappings of cfg are the ones of the state since line 552
            LET tms == state.SyncFlowOptions.TableMappings
            IN  /\ renameTablesInput' = RenameTableOptions(tms)
                /\ state' = [state EXCEPT !.SyncFlowOptions.TableMappings =
                                              RemoveResyncSuffix(tms)]
                /\ cfg' = [cfg EXCEPT !.TableMappings = RemoveResyncSuffix(tms)]
                /\ renameTablesFuture' = "running"
                /\ calls' = [calls EXCEPT !.RenameTables = @ + 1]
                /\ syncLive' = syncLive
                /\ NoStatusCall
                /\ Stays("rename_select")
       ELSE /\ SetupPhaseEnds(state)
            /\ UNCHANGED << cfg, renameTablesFuture, renameTablesInput, calls, syncLive >>
    /\ UNCHANGED << chanVars, ctxErr, catalogDown, stageVars, mysqlVars, originalTableMappings, setupFlowFuture,
                    snapshotFlowFuture, setupFlowInput, snapshotFlowInput, updVars,
                    mainVars, catalogConfig, runStart, obs >>

RenameTablesCallback ==
    /\ Selects("rename_select", "rename")
    /\ fired' = fired \cup {"rename"}
    /\ IF DropRequested(state) \/ ctxErr \/ renameTablesFuture = "err"
       THEN /\ IF DropRequested(state) THEN Ends("can_drop")
               ELSE IF ctxErr THEN Ends("return_cancelled")
               ELSE Ends("return_failed")
            /\ NoStatusCall
            /\ UNCHANGED state
       ELSE SetupPhaseEnds(state)
    /\ UNCHANGED << cfg, chanVars, ctxErr, catalogDown, stageVars, mysqlVars, setupVars, updVars, mainVars,
                    catalogConfig, calls, syncLive, runStart, obs >>

(* ------------------------------ pause loop ----------------------------- *)
\* an entry that resumes at once when no update is stored
EntryPauseResumes ==
    /\ pc = "entry"
    /\ EntryState.CurrentFlowStatus # "STATUS_COMPLETED"
    /\ EntryState.ActiveSignal = "PauseSignal"
    /\ runStart' = RunStart(EntryState)
    /\ IF EntryState.FlowConfigUpdate = Nil
       THEN /\ state' = updateStatus(EntryState, "STATUS_RUNNING")
            /\ UpdateStatusCall("STATUS_RUNNING")
            /\ Ends("can_cdc")
       ELSE /\ state' = updateStatus(EntryState, "STATUS_PAUSED")
            /\ UpdateStatusCall("STATUS_PAUSED")
            /\ Stays("process_update")
    /\ fired' = {}
    /\ UNCHANGED << cfg, chanVars, ctxErr, catalogDown, stageVars, mysqlVars, readyBranch, setupVars, updVars, mainVars, catalogConfig, calls, syncLive, obs >>

\* entry with ActiveSignal == PauseSignal (lines 456-489)
EntryPause ==
    /\ pc = "entry"
    /\ EntryState.CurrentFlowStatus # "STATUS_COMPLETED"
    /\ EntryState.ActiveSignal = "PauseSignal"
    /\ runStart' = RunStart(EntryState)
    /\ state' = updateStatus(EntryState, "STATUS_PAUSED")
    /\ UpdateStatusCall("STATUS_PAUSED")
    /\ fired' = {}
    /\ Stays(IF EntryState.FlowConfigUpdate = Nil THEN "pause_select" ELSE "process_update")
    /\ UNCHANGED << cfg, chanVars, ctxErr, catalogDown, stageVars, mysqlVars, readyBranch, setupVars, updVars, mainVars, catalogConfig, calls, syncLive, obs >>

\* the callback with Resync left out of the DropFlowInput of a resync
StateChangeInLoopResyncUnset(val, s, c) ==
    CASE val = "STATUS_TERMINATING" ->
            LET s1 == [s EXCEPT !.ActiveSignal = "TerminateSignal"]
                dropCfg == updateFlowConfigWithLatestSettings(c, s1)
            IN  [state |-> [s1 EXCEPT !.DropFlowInput = NewDropFlowInput(dropCfg, FALSE)],
                 cfg |-> c, upload |-> dropCfg]
      [] val = "STATUS_RESYNC" ->
            LET s1 == [s EXCEPT !.ActiveSignal = "ResyncSignal"]
                c1 == [c EXCEPT !.Resync = TRUE, !.DoInitialSnapshot = TRUE]
                resyncCfg == updateFlowConfigWithLatestSettings(c1, s1)
            IN  [state |-> [s1 EXCEPT !.DropFlowInput = NewDropFlowInput(resyncCfg, FALSE)],
                 cfg |-> c1, upload |-> resyncCfg]
      [] OTHER -> [state |-> s, cfg |-> c, upload |-> Nil]

\* the FlowStateChange callback of the pause loop and of the main loop
StateChangeInLoop(val, s, c) ==
    CASE val = "STATUS_TERMINATING" ->
            LET s1 == [s EXCEPT !.ActiveSignal = "TerminateSignal"]
                dropCfg == updateFlowConfigWithLatestSettings(c, s1)
            IN  [state |-> [s1 EXCEPT !.DropFlowInput = NewDropFlowInput(dropCfg, FALSE)],
                 cfg |-> c, upload |-> dropCfg]
      [] val = "STATUS_RESYNC" ->
            LET s1 == [s EXCEPT !.ActiveSignal = "ResyncSignal"]
                c1 == [c EXCEPT !.Resync = TRUE, !.DoInitialSnapshot = TRUE]
                resyncCfg == updateFlowConfigWithLatestSettings(c1, s1)
            IN  [state |-> [s1 EXCEPT !.DropFlowInput = NewDropFlowInput(resyncCfg, TRUE)],
                 cfg |-> c1, upload |-> resyncCfg]
      [] OTHER -> [state |-> s, cfg |-> c, upload |-> Nil]

\* a pause loop that resumes where it should leave for DropFlowWorkflow
AfterPauseSelectNoDrop(s) ==
    IF s.ActiveSignal = "PauseSignal" /\ s.FlowConfigUpdate = Nil /\ ~ctxErr
    THEN /\ state' = s /\ NoStatusCall /\ Stays("pause_select")
    ELSE IF ctxErr
    THEN /\ state' = s /\ NoStatusCall /\ Ends("return_cancelled")
    ELSE IF s.FlowConfigUpdate # Nil
    THEN /\ state' = s /\ NoStatusCall /\ Stays("process_update")
    ELSE /\ state' = updateStatus(s, "STATUS_RUNNING")
         /\ UpdateStatusCall("STATUS_RUNNING")
         /\ Ends("can_cdc")

\* lines 491-517 after a Select of the pause loop returned with State s;
\* resuming sets the status and continues-as-new
AfterPauseSelect(s) ==
    IF s.ActiveSignal = "PauseSignal" /\ s.FlowConfigUpdate = Nil /\ ~ctxErr
    THEN /\ state' = s /\ NoStatusCall /\ Stays("pause_select")
    ELSE IF ctxErr
    THEN /\ state' = s /\ NoStatusCall /\ Ends("return_cancelled")
    ELSE IF DropRequested(s)
    THEN /\ state' = s /\ NoStatusCall /\ Ends("can_drop")
    ELSE IF s.FlowConfigUpdate # Nil
    THEN /\ state' = s /\ NoStatusCall /\ Stays("process_update")
    ELSE /\ state' = updateStatus(s, "STATUS_RUNNING")
         /\ UpdateStatusCall("STATUS_RUNNING")
         /\ Ends("can_cdc")

PauseCtxDone ==
    /\ Selects("pause_select", "done")
    /\ fired' = fired \cup {"done"}
    /\ AfterPauseSelect(state)
    /\ UNCHANGED << cfg, chanVars, ctxErr, catalogDown, stageVars, mysqlVars, setupVars, updVars, mainVars,
                    catalogConfig, calls, syncLive, runStart, obs >>

PauseFlowSignal ==
    /\ Selects("pause_select", "flowSignal")
    /\ flowSignalChan' = Tail(flowSignalChan)
    /\ AfterPauseSelect([state EXCEPT !.ActiveSignal =
                            FlowSignalHandler(@, Head(flowSignalChan))])
    /\ UNCHANGED << cfg, flowSignalStateChangeChan, cdcPropertiesSignalChan, sent,
                    ctxErr, catalogDown, stageVars, mysqlVars, fired, setupVars, updVars, mainVars, catalogConfig,
                    calls, syncLive, runStart, obs >>

PauseStateChange ==
    /\ Selects("pause_select", "stateChange")
    /\ flowSignalStateChangeChan' = Tail(flowSignalStateChangeChan)
    /\ LET r == StateChangeInLoop(Head(flowSignalStateChangeChan), state, cfg)
       IN  /\ cfg' = r.cfg
           /\ Upload(r.upload)
           /\ AfterPauseSelect(r.state)
    /\ UNCHANGED << flowSignalChan, cdcPropertiesSignalChan, sent, ctxErr, catalogDown, stageVars, mysqlVars, fired,
                    setupVars, updVars, mainVars, calls, syncLive, runStart, obs >>

\* addCdcPropertiesSignalListener
PauseCDCProperties ==
    /\ Selects("pause_select", "cdcProps")
    /\ cdcPropertiesSignalChan' = Tail(cdcPropertiesSignalChan)
    /\ AfterPauseSelect([state EXCEPT !.FlowConfigUpdate = Head(cdcPropertiesSignalChan)])
    /\ UNCHANGED << cfg, flowSignalChan, flowSignalStateChangeChan, sent, ctxErr, catalogDown, stageVars, mysqlVars,
                    fired, setupVars, updVars, mainVars, catalogConfig, calls, syncLive,
                    runStart, obs >>

(* ----------------------- config update processing ---------------------- *)
\* the options assigned whatever the update holds, a zero too
ApplyOptionsAssigning(s, u) ==
    [s EXCEPT
       !.SyncFlowOptions.BatchSize = u.BatchSize,
       !.SyncFlowOptions.IdleTimeoutSeconds = u.IdleTimeout,
       !.SyncFlowOptions.NumberOfSyncs = IF u.NumberOfSyncs < 0 THEN 0 ELSE u.NumberOfSyncs,
       !.SnapshotNumRowsPerPartition = u.SnapshotNumRowsPerPartition,
       !.SnapshotMaxParallelWorkers = u.SnapshotMaxParallelWorkers,
       !.SnapshotNumTablesInParallel = u.SnapshotNumTablesInParallel]

\* processCDCFlowConfigUpdate, lines 150-178: the options
ApplyOptions(s, u) ==
    [s EXCEPT
       !.SyncFlowOptions.BatchSize = IF u.BatchSize > 0 THEN u.BatchSize ELSE @,
       !.SyncFlowOptions.IdleTimeoutSeconds = IF u.IdleTimeout > 0 THEN u.IdleTimeout ELSE @,
       !.SyncFlowOptions.NumberOfSyncs =
            IF u.NumberOfSyncs > 0 THEN u.NumberOfSyncs
            ELSE IF u.NumberOfSyncs < 0 THEN 0 ELSE @,
       !.SnapshotNumRowsPerPartition =
            IF u.SnapshotNumRowsPerPartition > 0 THEN u.SnapshotNumRowsPerPartition ELSE @,
       !.SnapshotMaxParallelWorkers =
            IF u.SnapshotMaxParallelWorkers > 0 THEN u.SnapshotMaxParallelWorkers ELSE @,
       !.SnapshotNumTablesInParallel =
            IF u.SnapshotNumTablesInParallel > 0 THEN u.SnapshotNumTablesInParallel ELSE @]

\* maps.Copy(cfg.Env, flowConfigUpdate.UpdatedEnv)
MergeEnv(c, u) == [c EXCEPT !.Env = MapsCopy(@, u.UpdatedEnv)]

\* the update wiped with ActiveSignal left as it is: the pause loop goes on
FinishConfigUpdateStaysPaused(c, s) ==
    /\ uploadConfigToCatalog(updateFlowConfigWithLatestSettings(c, s))
    /\ state' = [s EXCEPT !.FlowConfigUpdate = Nil]
    /\ NoStatusCall
    /\ Stays("pause_select")
    /\ UNCHANGED << activityFuture, calls, syncLive >>

\* lines 203-204 and 508-517: upload, wipe the update, resume
FinishConfigUpdate(c, s) ==
    /\ uploadConfigToCatalog(updateFlowConfigWithLatestSettings(c, s))
    /\ state' = updateStatus([s EXCEPT !.FlowConfigUpdate = Nil,
                                       !.ActiveSignal = "NoopSignal"], "STATUS_RUNNING")
    /\ UpdateStatusCall("STATUS_RUNNING")
    /\ Ends("can_cdc")
    /\ UNCHANGED << activityFuture, calls, syncLive >>

\* processTableRemovals starts with RemoveTablesFromPublication
StartRemovals(s) ==
    /\ state' = s
    /\ activityFuture' = "running"
    /\ calls' = [calls EXCEPT !.RemoveTablesFromPublication = @ + 1]
    /\ syncLive' = syncLive
    /\ Stays("rmpub_get")

\* lines 196-204: what follows the additions
AfterAdditions(c, s) ==
    IF Len(s.FlowConfigUpdate.RemovedTables) > 0
    THEN /\ StartRemovals(s)
         /\ NoStatusCall
         /\ UNCHANGED catalogConfig
    ELSE FinishConfigUpdate(c, s)

\* the processing with no test for overlapping additional tables
ProcessCDCFlowConfigUpdateNoSkip ==
    /\ pc = "process_update"
    /\ LET u == state.FlowConfigUpdate
           s == ApplyOptions(state, u)
           c == MergeEnv(cfg, u)
       IN  /\ cfg' = c
           /\ IF Len(u.AdditionalTables) = 0 /\ Len(u.RemovedTables) = 0
              THEN FinishConfigUpdate(c, s)
              ELSE IF Len(u.AdditionalTables) = 0
              THEN /\ StartRemovals(s)
                   /\ NoStatusCall
                   /\ UNCHANGED catalogConfig
              ELSE /\ state' = updateStatus(s, "STATUS_SNAPSHOT")
                   /\ UpdateStatusCall("STATUS_SNAPSHOT")
                   /\ activityFuture' = "running"
                   /\ calls' = [calls EXCEPT !.AddTablesToPublication = @ + 1]
                   /\ syncLive' = syncLive
                   /\ Stays("addpub_get")
                   /\ UNCHANGED catalogConfig
    /\ obs' = [obs EXCEPT !.processing =
                   [FlowConfigUpdate |-> state.FlowConfigUpdate,
                    TableMappings |-> state.SyncFlowOptions.TableMappings,
                    SrcTableIdNameMapping |-> state.SyncFlowOptions.SrcTableIdNameMapping]]
    /\ UNCHANGED << chanVars, ctxErr, catalogDown, stageVars, mysqlVars, fired, readyBranch, setupVars, mainVars,
                    childAddTablesCDCFlowFuture, runStart >>

\* processCDCFlowConfigUpdate up to its first Get, or to its end when it
\* waits on nothing (lines 150-233)
ProcessCDCFlowConfigUpdate ==
    /\ pc = "process_update"
    /\ LET u == state.FlowConfigUpdate
           s == ApplyOptions(state, u)
           c == MergeEnv(cfg, u)
       IN  /\ cfg' = c
           /\ IF Len(u.AdditionalTables) = 0 /\ Len(u.RemovedTables) = 0
              THEN FinishConfigUpdate(c, s)
              ELSE IF Len(u.AdditionalTables) = 0
              THEN /\ StartRemovals(s)
                   /\ NoStatusCall
                   /\ UNCHANGED catalogConfig
              ELSE IF AdditionalTablesHasOverlap(s.SyncFlowOptions.TableMappings,
                                                 u.AdditionalTables)
              THEN \* the additions are skipped (lines 219-223)
                   IF Len(u.RemovedTables) > 0
                   THEN /\ StartRemovals(s)
                        /\ NoStatusCall
                        /\ uploadConfigToCatalog(updateFlowConfigWithLatestSettings(c, s))
                   ELSE FinishConfigUpdate(c, s)
              ELSE \* processTableAdditions up to AddTablesToPublication
                   /\ state' = updateStatus(s, "STATUS_SNAPSHOT")
                   /\ UpdateStatusCall("STATUS_SNAPSHOT")
                   /\ activityFuture' = "running"
                   /\ calls' = [calls EXCEPT !.AddTablesToPublication = @ + 1]
                   /\ syncLive' = syncLive
                   /\ Stays("addpub_get")
                   /\ UNCHANGED catalogConfig
    \* the update taken up, and the tables of the State it is applied to
    /\ obs' = [obs EXCEPT !.processing =
                   [FlowConfigUpdate |-> state.FlowConfigUpdate,
                    TableMappings |-> state.SyncFlowOptions.TableMappings,
                    SrcTableIdNameMapping |-> state.SyncFlowOptions.SrcTableIdNameMapping]]
    /\ UNCHANGED << chanVars, ctxErr, catalogDown, stageVars, mysqlVars, fired, readyBranch, setupVars, mainVars,
                    childAddTablesCDCFlowFuture, runStart >>

\* an activity the coroutine waits on with Get finishes
ActivityCompletes ==
    /\ Alive /\ activityFuture = "running"
    /\ \E r \in {"ok", "err"} : activityFuture' = r
    /\ UNCHANGED << cfg, state, pc, outcome, chanVars, ctxErr, catalogDown, stageVars, mysqlVars, fired, readyBranch,
                    setupVars, childAddTablesCDCFlowFuture, mainVars, catalogStatus,
                    catalogConfig, calls, syncLive, statusTrail, runStart, obs >>

\* the error of a failed Get: the cancellation error once ctx is cancelled
GetFailed == Ends(IF ctxErr THEN "return_cancelled" ELSE "return_failed")

\* lines 234-301: AddTablesToPublication returned, start the child CDCFlow
AddTablesToPublicationGet ==
    /\ pc = "addpub_get" /\ FutureReady(activityFuture)
    /\ activityFuture' = "none"
    /\ IF activityFuture = "err"
       THEN /\ GetFailed
            /\ UNCHANGED << childAddTablesCDCFlowFuture, calls, syncLive, fired >>
       ELSE /\ childAddTablesCDCFlowFuture' = "running"
            /\ calls' = [calls EXCEPT !.AddTablesCDCFlow = @ + 1]
            /\ syncLive' = syncLive
            /\ fired' = {}
            /\ Stays("addtables_select")
    /\ UNCHANGED << cfg, state, chanVars, ctxErr, catalogDown, stageVars, mysqlVars, readyBranch, setupVars, mainVars, catalogStatus, catalogConfig, statusTrail, runStart, obs >>

AddTablesCDCFlowCompletes ==
    /\ Alive /\ childAddTablesCDCFlowFuture = "running"
    /\ \E r \in {"ok", "err"} : childAddTablesCDCFlowFuture' = r
    /\ Arrive("addTables")
    /\ UNCHANGED << cfg, state, pc, outcome, chanVars, ctxErr, catalogDown, stageVars, mysqlVars, fired, setupVars,
                    activityFuture, mainVars, catalogStatus, catalogConfig, calls, syncLive,
                    statusTrail, runStart, obs >>

\* a callback that appends the additional tables itself on Resync
StateChangeInAddTablesAppending(val, s, c) ==
    CASE val = "STATUS_TERMINATING" ->
            LET s1 == [s EXCEPT !.ActiveSignal = "TerminateSignal"]
                dropCfg == updateFlowConfigWithLatestSettings(c, s1)
            IN  [state |-> [s1 EXCEPT !.DropFlowInput = NewDropFlowInput(dropCfg, FALSE)],
                 cfg |-> c, upload |-> dropCfg]
      [] val = "STATUS_RESYNC" ->
            [state |-> [s EXCEPT !.ActiveSignal = "ResyncSignal",
                                 !.SyncFlowOptions.TableMappings =
                                     @ \o s.FlowConfigUpdate.AdditionalTables,
                                 !.DropFlowInput = [FlowJobName |-> "",
                                                    FlowConnectionConfigs |-> Nil,
                                                    Resync |-> TRUE]],
             cfg |-> [c EXCEPT !.Resync = TRUE, !.DoInitialSnapshot = TRUE],
             upload |-> Nil]
      [] OTHER -> [state |-> s, cfg |-> c, upload |-> Nil]

\* the FlowStateChange callback of the AddTables selector (lines 254-283)
StateChangeInAddTables(val, s, c) ==
    CASE val = "STATUS_TERMINATING" ->
            LET s1 == [s EXCEPT !.ActiveSignal = "TerminateSignal"]
                dropCfg == updateFlowConfigWithLatestSettings(c, s1)
            IN  [state |-> [s1 EXCEPT !.DropFlowInput = NewDropFlowInput(dropCfg, FALSE)],
                 cfg |-> c, upload |-> dropCfg]
      [] val = "STATUS_RESYNC" ->
            [state |-> [s EXCEPT !.ActiveSignal = "ResyncSignal",
                                 !.DropFlowInput = [FlowJobName |-> "",
                                                    FlowConnectionConfigs |-> Nil,
                                                    Resync |-> TRUE]],
             cfg |-> [c EXCEPT !.Resync = TRUE, !.DoInitialSnapshot = TRUE],
             upload |-> Nil]
      [] OTHER -> [state |-> s, cfg |-> c, upload |-> Nil]

\* lines 310-327 after a Select of the AddTables selector
AfterAddTablesSelect(s, c, upload) ==
    IF s.ActiveSignal = "ResyncSignal"
    THEN LET s1 == [s EXCEPT !.SyncFlowOptions.TableMappings =
                                 @ \o s.FlowConfigUpdate.AdditionalTables]
             resyncCfg == updateFlowConfigWithLatestSettings(c, s1)
         IN  /\ state' = [s1 EXCEPT !.DropFlowInput.FlowJobName = resyncCfg.FlowJobName,
                                    !.DropFlowInput.FlowConnectionConfigs = resyncCfg]
             /\ uploadConfigToCatalog(resyncCfg)
             /\ Ends("can_drop")
    ELSE /\ state' = s
         /\ Upload(upload)
         /\ IF s.ActiveSignal = "TerminateSignal" THEN Ends("can_drop")
            ELSE IF ctxErr THEN Ends("return_cancelled")
            ELSE Stays("addtables_select")

AddTablesStateChange ==
    /\ Selects("addtables_select", "stateChange")
    /\ flowSignalStateChangeChan' = Tail(flowSignalStateChangeChan)
    /\ LET r == StateChangeInAddTables(Head(flowSignalStateChangeChan), state, cfg)
       IN  /\ cfg' = r.cfg
           /\ AfterAddTablesSelect(r.state, r.cfg, r.upload)
    /\ UNCHANGED << flowSignalChan, cdcPropertiesSignalChan, sent, ctxErr, catalogDown, stageVars, mysqlVars, fired,
                    setupVars, updVars, mainVars, catalogStatus, calls, syncLive, statusTrail,
                    runStart, obs >>

AddTablesCtxDone ==
    /\ Selects("addtables_select", "done")
    /\ fired' = fired \cup {"done"}
    /\ AfterAddTablesSelect(state, cfg, Nil)
    /\ UNCHANGED << cfg, chanVars, ctxErr, catalogDown, stageVars, mysqlVars, setupVars, updVars, mainVars,
                    catalogStatus, calls, syncLive, statusTrail, runStart, obs >>

\* the configuration of the child CDCFlow (lines 242-249)
AdditionalTablesCfg(c, s) ==
    [c EXCEPT !.DoInitialSnapshot = TRUE, !.InitialSnapshotOnly = TRUE,
              !.TableMappings = s.FlowConfigUpdate.AdditionalTables, !.Resync = FALSE,
              !.SnapshotNumRowsPerPartition = s.SnapshotNumRowsPerPartition,
              !.SnapshotMaxParallelWorkers = s.SnapshotMaxParallelWorkers,
              !.SnapshotNumTablesInParallel = s.SnapshotNumTablesInParallel]

\* a merge that puts the additional tables before the existing mappings
MergeAdditionalTablesPrepending(s, c) ==
    [s EXCEPT !.SyncFlowOptions.SrcTableIdNameMapping =
                  MapsCopy(@, SetupFlowOutput(AdditionalTablesCfg(c, s))),
              !.SyncFlowOptions.TableMappings = s.FlowConfigUpdate.AdditionalTables \o @]

\* a merge that replaces the mappings by the additional tables
MergeAdditionalTablesReplacing(s, c) ==
    [s EXCEPT !.SyncFlowOptions.SrcTableIdNameMapping =
                  MapsCopy(@, SetupFlowOutput(AdditionalTablesCfg(c, s))),
              !.SyncFlowOptions.TableMappings = s.FlowConfigUpdate.AdditionalTables]

\* lines 330-332: the result of the child is merged into the State
MergeAdditionalTables(s, c) ==
    [s EXCEPT !.SyncFlowOptions.SrcTableIdNameMapping =
                  MapsCopy(@, SetupFlowOutput(AdditionalTablesCfg(c, s))),
              !.SyncFlowOptions.TableMappings = @ \o s.FlowConfigUpdate.AdditionalTables]

\* the child future callback and what follows it (lines 304-334, 196-204)
AddTablesCallback ==
    /\ Selects("addtables_select", "addTables")
    /\ fired' = fired \cup {"addTables"}
    /\ IF DropRequested(state) \/ ctxErr \/ childAddTablesCDCFlowFuture = "err"
       THEN /\ IF DropRequested(state)
               THEN AfterAddTablesSelect(state, cfg, Nil)
               ELSE /\ IF ctxErr THEN Ends("return_cancelled") ELSE Ends("return_failed")
                    /\ UNCHANGED << state, catalogConfig >>
            /\ NoStatusCall
            /\ UNCHANGED << activityFuture, calls, syncLive >>
       ELSE AfterAdditions(cfg, MergeAdditionalTables(state, cfg))
    /\ UNCHANGED << cfg, chanVars, ctxErr, catalogDown, stageVars, mysqlVars, setupVars, childAddTablesCDCFlowFuture,
                    mainVars, runStart, obs >>

\* a removal that edits SrcTableIdNameMapping and leaves TableMappings
RemoveTablesIdsOnly(s) ==
    LET removedTables ==
            { t.SourceTableIdentifier : t \in Range(s.FlowConfigUpdate.RemovedTables) }
        idmap == s.SyncFlowOptions.SrcTableIdNameMapping
    IN  [s EXCEPT
           !.SyncFlowOptions.SrcTableIdNameMapping =
                [k \in { k \in DOMAIN idmap : idmap[k] \notin removedTables } |-> idmap[k]]]

\* a removal that edits TableMappings and leaves SrcTableIdNameMapping
RemoveTablesMappingsOnly(s) ==
    LET removedTables ==
            { t.SourceTableIdentifier : t \in Range(s.FlowConfigUpdate.RemovedTables) }
    IN  [s EXCEPT !.SyncFlowOptions.TableMappings = SeqFilterOut(@, removedTables)]

\* lines 382-394: the State after the three removal activities
RemoveTables(s) ==
    LET removedTables ==
            { t.SourceTableIdentifier : t \in Range(s.FlowConfigUpdate.RemovedTables) }
        idmap == s.SyncFlowOptions.SrcTableIdNameMapping
    IN  [s EXCEPT
           !.SyncFlowOptions.SrcTableIdNameMapping =
                [k \in { k \in DOMAIN idmap : idmap[k] \notin removedTables } |-> idmap[k]],
           !.SyncFlowOptions.TableMappings = SeqFilterOut(@, removedTables)]

\* the Gets with the State edited as soon as the publication is altered
RemovalGetEditsFirst ==
    /\ pc \in {"rmpub_get", "rmraw_get", "rmcat_get"} /\ FutureReady(activityFuture)
    /\ IF activityFuture = "err"
       THEN /\ GetFailed
            /\ activityFuture' = "none"
            /\ NoStatusCall
            /\ UNCHANGED << state, calls, syncLive, catalogConfig >>
       ELSE IF pc = "rmpub_get"
       THEN /\ activityFuture' = "running"
            /\ calls' = [calls EXCEPT !.RemoveTablesFromRawTable = @ + 1]
            /\ syncLive' = syncLive
            /\ Stays("rmraw_get")
            /\ NoStatusCall
            /\ state' = RemoveTables(state)
            /\ UNCHANGED catalogConfig
       ELSE IF pc = "rmraw_get"
       THEN /\ activityFuture' = "running"
            /\ calls' = [calls EXCEPT !.RemoveTablesFromCatalog = @ + 1]
            /\ syncLive' = syncLive
            /\ Stays("rmcat_get")
            /\ NoStatusCall
            /\ UNCHANGED << state, catalogConfig >>
       ELSE /\ uploadConfigToCatalog(
                   updateFlowConfigWithLatestSettings(cfg, RemoveTables(state)))
            /\ state' = updateStatus([RemoveTables(state) EXCEPT
                                         !.FlowConfigUpdate = Nil,
                                         !.ActiveSignal = "NoopSignal"], "STATUS_RUNNING")
            /\ UpdateStatusCall("STATUS_RUNNING")
            /\ Ends("can_cdc")
            /\ activityFuture' = "none"
            /\ UNCHANGED << calls, syncLive >>
    /\ UNCHANGED << cfg, chanVars, ctxErr, catalogDown, stageVars, mysqlVars, fired, readyBranch, setupVars,
                    childAddTablesCDCFlowFuture, mainVars, runStart, obs >>

\* removals that go on to the next activity when an earlier one failed
RemovalGetPastFailure ==
    /\ pc \in {"rmpub_get", "rmraw_get", "rmcat_get"} /\ FutureReady(activityFuture)
    /\ IF activityFuture = "err" /\ pc = "rmcat_get"
       THEN /\ GetFailed
            /\ activityFuture' = "none"
            /\ NoStatusCall
            /\ UNCHANGED << state, calls, syncLive, catalogConfig >>
       ELSE IF pc = "rmpub_get"
       THEN /\ activityFuture' = "running"
            /\ calls' = [calls EXCEPT !.RemoveTablesFromRawTable = @ + 1]
            /\ syncLive' = syncLive
            /\ Stays("rmraw_get")
            /\ NoStatusCall
            /\ UNCHANGED << state, catalogConfig >>
       ELSE IF pc = "rmraw_get"
       THEN /\ activityFuture' = "running"
            /\ calls' = [calls EXCEPT !.RemoveTablesFromCatalog = @ + 1]
            /\ syncLive' = syncLive
            /\ Stays("rmcat_get")
            /\ NoStatusCall
            /\ UNCHANGED << state, catalogConfig >>
       ELSE /\ uploadConfigToCatalog(
                   updateFlowConfigWithLatestSettings(cfg, RemoveTables(state)))
            /\ state' = updateStatus([RemoveTables(state) EXCEPT
                                         !.FlowConfigUpdate = Nil,
                                         !.ActiveSignal = "NoopSignal"], "STATUS_RUNNING")
            /\ UpdateStatusCall("STATUS_RUNNING")
            /\ Ends("can_cdc")
            /\ activityFuture' = "none"
            /\ UNCHANGED << calls, syncLive >>
    /\ UNCHANGED << cfg, chanVars, ctxErr, catalogDown, stageVars, mysqlVars, fired, readyBranch, setupVars,
                    childAddTablesCDCFlowFuture, mainVars, runStart, obs >>

\* processTableRemovals: each Get, in the order of the three activities
RemovalGet ==
    /\ pc \in {"rmpub_get", "rmraw_get", "rmcat_get"} /\ FutureReady(activityFuture)
    /\ IF activityFuture = "err"
       THEN /\ GetFailed
            /\ activityFuture' = "none"
            /\ NoStatusCall
            /\ UNCHANGED << state, calls, syncLive, catalogConfig >>
       ELSE IF pc = "rmpub_get"
       THEN /\ activityFuture' = "running"
            /\ calls' = [calls EXCEPT !.RemoveTablesFromRawTable = @ + 1]
            /\ syncLive' = syncLive
            /\ Stays("rmraw_get")
            /\ NoStatusCall
            /\ UNCHANGED << state, catalogConfig >>
       ELSE IF pc = "rmraw_get"
       THEN /\ activityFuture' = "running"
            /\ calls' = [calls EXCEPT !.RemoveTablesFromCatalog = @ + 1]
            /\ syncLive' = syncLive
            /\ Stays("rmcat_get")
            /\ NoStatusCall
            /\ UNCHANGED << state, catalogConfig >>
       ELSE /\ uploadConfigToCatalog(
                   updateFlowConfigWithLatestSettings(cfg, RemoveTables(state)))
            /\ state' = updateStatus([RemoveTables(state) EXCEPT
                                         !.FlowConfigUpdate = Nil,
                                         !.ActiveSignal = "NoopSignal"], "STATUS_RUNNING")
            /\ UpdateStatusCall("STATUS_RUNNING")
            /\ Ends("can_cdc")
            /\ activityFuture' = "none"
            /\ UNCHANGED << calls, syncLive >>
    /\ UNCHANGED << cfg, chanVars, ctxErr, catalogDown, stageVars, mysqlVars, fired, readyBranch, setupVars,
                    childAddTablesCDCFlowFuture, mainVars, runStart, obs >>

(* ------------------------------- main loop ----------------------------- *)
\* entry with status RUNNING and no pause: start SyncFlow (lines 736-834)
EntryMain ==
    /\ pc = "entry"
    /\ EntryState.CurrentFlowStatus = "STATUS_RUNNING"
    /\ EntryState.ActiveSignal # "PauseSignal"
    /\ runStart' = RunStart(EntryState)
    /\ syncFlowFuture' = "running"
    /\ calls' = [calls EXCEPT !.SyncFlow = @ + 1]
    /\ syncLive' = syncLive + 1
    /\ fired' = {}
    /\ state' = updateStatus(EntryState, "STATUS_RUNNING")
    /\ UpdateStatusCall("STATUS_RUNNING")
    /\ Stays("main_select")
    /\ UNCHANGED << cfg, chanVars, ctxErr, catalogDown, stageVars, mysqlVars, readyBranch, setupVars, updVars,
                    sleepFuture, finished, finishedError, catalogConfig,
                    obs >>

\* the SyncFlow activity returns
SyncFlowCompletes ==
    /\ Alive /\ syncFlowFuture = "running"
    /\ \E r \in {"ok", "err", "canceled"} :
          /\ r = "canceled" => (pc = "main_cancelwait" \/ ctxErr)
          /\ r = "err" => state.ErrorCount < MaxErrorCount
          /\ syncFlowFuture' = r
    /\ syncLive' = syncLive - 1
    /\ Arrive("sync")
    /\ UNCHANGED << cfg, state, pc, outcome, chanVars, ctxErr, catalogDown, stageVars, mysqlVars, fired, setupVars,
                    updVars, sleepFuture, finished, finishedError,
                    catalogStatus, catalogConfig, calls, statusTrail, runStart, obs >>

\* the timer of model.SleepFuture fires
SleepCompletes ==
    /\ Alive /\ sleepFuture.minutes > 0 /\ ~sleepFuture.fired
    /\ sleepFuture' = TimerFired
    /\ Arrive("sleep")
    /\ UNCHANGED << cfg, state, pc, outcome, chanVars, ctxErr, catalogDown, stageVars, mysqlVars, fired, setupVars,
                    updVars, syncFlowFuture, finished, finishedError,
                    catalogStatus, catalogConfig, calls, syncLive, statusTrail, runStart, obs >>

\* a backoff that grows with ErrorCount without a cap
SleepMinutesUncapped(err, errorCount) ==
    IF err = "panic" THEN 10 + errorCount * 15
    ELSE IF err \in {"nonapplication", "sqlstate55006"} THEN 1 + errorCount
    ELSE 5 + errorCount * 15

\* sleepFor in minutes (lines 762-778)
SleepMinutes(err, errorCount) ==
    IF err = "panic" THEN 10 + Min(errorCount, 3) * 15
    ELSE IF err \in {"nonapplication", "sqlstate55006"} THEN 1 + Min(errorCount, 9)
    ELSE 5 + Min(errorCount, 5) * 15

\* a callback of the main loop selector runs in the first Select of an
\* iteration (line 836) or in one of the two drains (lines 837-839, 854-856)
MainSelects(c) ==
    /\ pc \in {"main_select", "main_drain", "main_drain2"}
    /\ pc # "main_select" => ~ctxErr
    /\ Selects(pc, c)
    /\ Stays(IF pc = "main_select" THEN "main_drain" ELSE pc)

MainCtxDone ==
    /\ MainSelects("done")
    /\ fired' = fired \cup {"done"}
    /\ finished' = TRUE
    /\ UNCHANGED << cfg, state, chanVars, ctxErr, catalogDown, stageVars, mysqlVars, setupVars, updVars, syncFlowFuture,
                    sleepFuture, finishedError, catalogStatus,
                    catalogConfig, calls, syncLive, statusTrail, runStart, obs >>

\* state.LastError.Add(24 * time.Hour).Before(now), on the age of LastError
LastErrorIsStale(age) == age > Day

\* the failure handled with the time of a clock of its own (time.Now) and
\* not of the workflow's (workflow.Now)
SyncFailureHandledWallClock(dt, err) ==
    \E wall \in 0..MaxElapsed :
        LET stale == LastErrorIsStale(Min(state.LastError + wall, Older))
            count == IF stale THEN 0 ELSE state.ErrorCount
        IN  /\ state' = [state EXCEPT !.ErrorCount = count, !.LastError = 0]
            /\ sleepFuture' = SleepFuture(SleepMinutes(err, count))
            /\ obs' = [obs EXCEPT !.errorReset = stale]
            /\ UNCHANGED finished

\* lines 757-779: a failure of SyncFlow is handled; now := workflow.Now(ctx)
\* reads dt days after the clock was last read, and err is the class of the
\* error the future holds
SyncFailureHandled(dt, err) ==
    LET stale == LastErrorIsStale(Min(state.LastError + dt, Older))
        count == IF stale THEN 0 ELSE state.ErrorCount
    IN  /\ state' = [state EXCEPT !.ErrorCount = count, !.LastError = 0]
        /\ sleepFuture' = SleepFuture(SleepMinutes(err, count))
        /\ obs' = [obs EXCEPT !.errorReset = stale]
        /\ UNCHANGED finished

\* a callback that ends the run on a clean sync and never counts the syncs
SyncFlowCallbackUncounted ==
    /\ MainSelects("sync")
    /\ fired' = fired \cup {"sync"}
    /\ IF syncFlowFuture = "ok"
       THEN /\ finished' = TRUE
            /\ state' = state
            /\ obs' = [obs EXCEPT !.syncSucceeded = TRUE]
            /\ UNCHANGED sleepFuture
       ELSE IF finished \/ syncFlowFuture = "canceled"
       THEN UNCHANGED << state, finished, sleepFuture, obs >>
       ELSE \E dt \in 0..MaxElapsed, err \in SyncErrors : SyncFailureHandled(dt, err)
    /\ UNCHANGED << cfg, chanVars, ctxErr, catalogDown, stageVars, mysqlVars, setupVars, updVars, syncFlowFuture,
                    finishedError, catalogStatus, catalogConfig, calls, syncLive, statusTrail,
                    runStart >>

\* lines 750-797
SyncFlowCallback ==
    /\ MainSelects("sync")
    /\ fired' = fired \cup {"sync"}
    /\ IF syncFlowFuture = "ok"
       THEN /\ finished' = TRUE
            /\ state' = IF state.SyncFlowOptions.NumberOfSyncs > 0
                        THEN [state EXCEPT !.ActiveSignal = "PauseSignal"]
                        ELSE state
            /\ obs' = [obs EXCEPT !.syncSucceeded = TRUE]
            /\ UNCHANGED sleepFuture
       ELSE IF finished \/ syncFlowFuture = "canceled"
       THEN UNCHANGED << state, finished, sleepFuture, obs >>
       ELSE \E dt \in 0..MaxElapsed, err \in SyncErrors : SyncFailureHandled(dt, err)
    /\ UNCHANGED << cfg, chanVars, ctxErr, catalogDown, stageVars, mysqlVars, setupVars, updVars, syncFlowFuture,
                    finishedError, catalogStatus, catalogConfig, calls, syncLive, statusTrail,
                    runStart >>

\* the callback that has a failure to handle reads the clock and the error
SyncFailureToHandle ==
    syncFlowFuture # "ok" /\ ~(finished \/ syncFlowFuture = "canceled")

\* a step of SyncFlowCallback in which the clock reads dt and the error is
\* of class err
SyncFlowCallbackAt(dt, err) ==
    /\ SyncFlowCallback
    /\ SyncFailureToHandle => SyncFailureHandled(dt, err)

\* lines 782-789
SleepCallback ==
    /\ MainSelects("sleep")
    /\ fired' = fired \cup {"sleep"}
    /\ finished' = TRUE
    /\ finishedError' = TRUE
    /\ state' = IF state.SyncFlowOptions.NumberOfSyncs > 0
                THEN [state EXCEPT !.ActiveSignal = "PauseSignal"]
                ELSE state
    /\ obs' = [obs EXCEPT !.sleepFired = TRUE]
    /\ UNCHANGED << cfg, chanVars, ctxErr, catalogDown, stageVars, mysqlVars, setupVars, updVars, syncFlowFuture,
                    sleepFuture, catalogStatus, catalogConfig, calls, syncLive,
                    statusTrail, runStart >>

\* a FlowSignal callback that stores the received value as it comes
MainFlowSignalUnfolded ==
    /\ MainSelects("flowSignal")
    /\ flowSignalChan' = Tail(flowSignalChan)
    /\ LET active == Head(flowSignalChan)
       IN  /\ state' = [state EXCEPT !.ActiveSignal = active]
           /\ finished' = (finished \/ active = "PauseSignal")
    /\ UNCHANGED << cfg, flowSignalStateChangeChan, cdcPropertiesSignalChan, sent,
                    ctxErr, catalogDown, stageVars, mysqlVars, fired, setupVars, updVars, syncFlowFuture, sleepFuture,
                    finishedError, catalogStatus, catalogConfig, calls, syncLive,
                    statusTrail, runStart, obs >>

\* a FlowSignal callback that takes the value and leaves ActiveSignal alone
MainFlowSignalDiscarding ==
    /\ MainSelects("flowSignal")
    /\ flowSignalChan' = Tail(flowSignalChan)
    /\ UNCHANGED << cfg, state, finished, flowSignalStateChangeChan, cdcPropertiesSignalChan, sent,
                    ctxErr, catalogDown, stageVars, mysqlVars, fired, setupVars, updVars, syncFlowFuture, sleepFuture,
                    finishedError, catalogStatus, catalogConfig, calls, syncLive,
                    statusTrail, runStart, obs >>

\* lines 799-804
MainFlowSignal ==
    /\ MainSelects("flowSignal")
    /\ flowSignalChan' = Tail(flowSignalChan)
    /\ LET active == FlowSignalHandler(state.ActiveSignal, Head(flowSignalChan))
       IN  /\ state' = [state EXCEPT !.ActiveSignal = active]
           /\ finished' = (finished \/ active = "PauseSignal")
    /\ UNCHANGED << cfg, flowSignalStateChangeChan, cdcPropertiesSignalChan, sent,
                    ctxErr, catalogDown, stageVars, mysqlVars, fired, setupVars, updVars, syncFlowFuture, sleepFuture,
                    finishedError, catalogStatus, catalogConfig, calls, syncLive,
                    statusTrail, runStart, obs >>

\* lines 805-830
MainStateChange ==
    /\ MainSelects("stateChange")
    /\ flowSignalStateChangeChan' = Tail(flowSignalStateChangeChan)
    /\ finished' = TRUE
    /\ LET val == Head(flowSignalStateChangeChan)
           r == StateChangeInLoop(val, state, cfg)
       IN  /\ state' = r.state
           /\ cfg' = r.cfg
           /\ Upload(r.upload)
           /\ obs' = [obs EXCEPT !.dropRequestInMainLoop =
                          @ \/ val \in {"STATUS_TERMINATING", "STATUS_RESYNC"}]
    /\ UNCHANGED << flowSignalChan, cdcPropertiesSignalChan, sent, ctxErr, catalogDown, stageVars, mysqlVars, fired,
                    setupVars, updVars, syncFlowFuture, sleepFuture,
                    finishedError, catalogStatus, calls, syncLive, statusTrail, runStart >>

\* addCdcPropertiesSignalListener on the main loop selector
MainCDCProperties ==
    /\ MainSelects("cdcProps")
    /\ cdcPropertiesSignalChan' = Tail(cdcPropertiesSignalChan)
    /\ state' = [state EXCEPT !.FlowConfigUpdate = Head(cdcPropertiesSignalChan)]
    /\ UNCHANGED << cfg, flowSignalChan, flowSignalStateChangeChan, sent, ctxErr, catalogDown, stageVars, mysqlVars,
                    fired, setupVars, updVars, mainVars, catalogStatus,
                    catalogConfig, calls, syncLive, statusTrail, runStart, obs >>

\* the first drain is over (lines 837-847)
Drained == ctxErr \/ ~HasPending(pc)

\* line 840: cancelled
MainCancelled ==
    /\ pc = "main_drain" /\ Drained /\ ctxErr
    /\ Ends("return_cancelled")
    /\ UNCHANGED << cfg, state, chanVars, ctxErr, catalogDown, stageVars, mysqlVars, fired, readyBranch, setupVars,
                    updVars, mainVars, catalogStatus, catalogConfig, calls, syncLive,
                    statusTrail, runStart, obs >>

\* not finished and no continue-as-new suggested: next iteration
MainLoopAgain ==
    /\ pc = "main_drain" /\ Drained /\ ~ctxErr
    /\ ~finished
    /\ Stays("main_select")
    /\ UNCHANGED << cfg, state, chanVars, ctxErr, catalogDown, stageVars, mysqlVars, fired, readyBranch, setupVars,
                    updVars, mainVars, catalogStatus, catalogConfig, calls, syncLive,
                    statusTrail, runStart, obs >>

\* finished, going on to the second drain without cancelSync() and Get
MainLoopFinishedNoWait ==
    /\ pc = "main_drain" /\ Drained /\ ~ctxErr
    /\ finished' = TRUE
    /\ Stays("main_drain2")
    /\ UNCHANGED << cfg, state, chanVars, ctxErr, catalogDown, stageVars, mysqlVars, fired, readyBranch, setupVars,
                    updVars, syncFlowFuture, sleepFuture, finishedError,
                    catalogStatus, catalogConfig, calls, syncLive, statusTrail, runStart, obs >>

\* finished, or ShouldWorkflowContinueAsNew: cancelSync() and wait (849-852)
MainLoopFinished ==
    /\ pc = "main_drain" /\ Drained /\ ~ctxErr
    /\ finished' = TRUE
    /\ Stays("main_cancelwait")
    /\ UNCHANGED << cfg, state, chanVars, ctxErr, catalogDown, stageVars, mysqlVars, fired, readyBranch, setupVars,
                    updVars, syncFlowFuture, sleepFuture, finishedError,
                    catalogStatus, catalogConfig, calls, syncLive, statusTrail, runStart, obs >>

\* a main loop that goes on without the Get on the sync future
SyncFlowNotAwaited ==
    /\ pc = "main_cancelwait"
    /\ Stays("main_drain2")
    /\ UNCHANGED << cfg, state, chanVars, ctxErr, catalogDown, stageVars, mysqlVars, fired, readyBranch, setupVars,
                    updVars, mainVars, catalogStatus, catalogConfig, calls, syncLive,
                    statusTrail, runStart, obs >>

\* _ = syncFlowFuture.Get(ctx, nil)
SyncFlowAwaited ==
    /\ pc = "main_cancelwait" /\ FutureReady(syncFlowFuture)
    /\ Stays("main_drain2")
    /\ UNCHANGED << cfg, state, chanVars, ctxErr, catalogDown, stageVars, mysqlVars, fired, readyBranch, setupVars,
                    updVars, mainVars, catalogStatus, catalogConfig, calls, syncLive,
                    statusTrail, runStart, obs >>

\* the error counter handed to the next run (lines 864-868)
NextErrorCount(errorCount, finErr) == IF finErr THEN errorCount + 1 ELSE 0

\* lines 858-873
MainLoopEnds ==
    /\ pc = "main_drain2" /\ Drained
    /\ IF ctxErr
       THEN /\ state' = updateStatus(state, "STATUS_TERMINATED")
            /\ UpdateStatusCall("STATUS_TERMINATED")
            /\ Ends("return_cancelled")
       ELSE /\ state' = [state EXCEPT !.ErrorCount = NextErrorCount(@, finishedError)]
            /\ NoStatusCall
            /\ Ends(IF DropRequested(state) THEN "can_drop" ELSE "can_cdc")
    /\ UNCHANGED << cfg, chanVars, ctxErr, catalogDown, stageVars, mysqlVars, fired, readyBranch, setupVars, updVars,
                    mainVars, catalogConfig, calls, syncLive, runStart, obs >>

(* --------------------------- between runs ------------------------------ *)
NewRun ==
    /\ pc' = "entry"
    /\ outcome' = "running"
    /\ ctxErr' = FALSE
    /\ fired' = {}
    /\ readyBranch' = "none"
    /\ originalTableMappings' = <<>>
    /\ setupFlowFuture' = "none"
    /\ snapshotFlowFuture' = "none"
    /\ renameTablesFuture' = "none"
    /\ childAddTablesCDCFlowFuture' = "none"
    /\ activityFuture' = "none"
    /\ syncFlowFuture' = "none"
    /\ sleepFuture' = NoTimer
    /\ finished' = FALSE
    /\ finishedError' = FALSE
    /\ calls' = NoCalls
    /\ syncLive' = syncLive
    /\ setupFlowInput' = Nil
    /\ snapshotFlowInput' = Nil
    /\ renameTablesInput' = Nil
    /\ statusTrail' = <<>>
    /\ obs' = NoObs
    /\ UNCHANGED << chanVars, catalogStatus, catalogConfig, catalogDown, stageVars, mysqlVars,
                    runStart >>

\* workflow.NewContinueAsNewError(ctx, CDCFlowWorkflow, cfg, state)
ContinueAsNewCDCFlow ==
    /\ pc = "done" /\ outcome = "can_cdc"
    /\ NewRun
    /\ UNCHANGED << cfg, state >>

\* DropFlowWorkflow with Resync set starts CDCFlowWorkflow again, with the
\* config of its input and no State
DropFlowResync ==
    /\ pc = "done" /\ outcome = "can_drop"
    /\ state.DropFlowInput.Resync
    /\ NewRun
    /\ cfg' = state.DropFlowInput.FlowConnectionConfigs
    /\ state' = Nil

Next ==
    \/ SendFlowSignal
    \/ SendFlowStateChange
    \/ SendCDCDynamicProperties
    \/ CancelWorkflow
    \/ SetupFlowCompletes
    \/ SnapshotFlowCompletes
    \/ RenameTablesCompletes
    \/ EntryCompleted
    \/ EntrySetup
    \/ SetupPhaseStateChange
    \/ SetupPhaseCtxDone
    \/ SetupFlowCallback
    \/ SnapshotFlowCallback
    \/ RenameTablesCallback
    \/ EntryPause
    \/ PauseCtxDone
    \/ PauseFlowSignal
    \/ PauseStateChange
    \/ PauseCDCProperties
    \/ ProcessCDCFlowConfigUpdate
    \/ ActivityCompletes
    \/ AddTablesToPublicationGet
    \/ AddTablesCDCFlowCompletes
    \/ AddTablesStateChange
    \/ AddTablesCtxDone
    \/ AddTablesCallback
    \/ RemovalGet
    \/ EntryMain
    \/ SyncFlowCompletes
    \/ SleepCompletes
    \/ MainCtxDone
    \/ SyncFlowCallback
    \/ SleepCallback
    \/ MainFlowSignal
    \/ MainStateChange
    \/ MainCDCProperties
    \/ MainCancelled
    \/ MainLoopAgain
    \/ MainLoopFinished
    \/ SyncFlowAwaited
    \/ MainLoopEnds
    \/ ContinueAsNewCDCFlow
    \/ DropFlowResync

Spec == Init /\ [][Next]_vars

TypeOK ==
    /\ pc \in {"entry", "done", "pause_select", "process_update", "addpub_get",
              "addtables_select", "rmpub_get", "rmraw_get", "rmcat_get", "main_select",
              "main_drain", "main_cancelwait", "main_drain2"} \cup SetupPhasePcs
    /\ outcome \in {"running", "return", "return_cancelled", "return_failed",
                    "can_cdc", "can_drop"}

(* ------------------- the specification for liveness -------------------- *)
\* a plain mirror that is neither cancelled nor asked to terminate or resync
LiveInit == Init /\ cfg = NewConfig(<<mA, mB>>, FALSE, FALSE)

\* the steps of the workflow coroutine
WorkflowStep ==
    \/ EntrySetup
    \/ SetupFlowCallback
    \/ SnapshotFlowCallback
    \/ EntryPause
    \/ PauseFlowSignal
    \/ PauseCDCProperties
    \/ ProcessCDCFlowConfigUpdate
    \/ AddTablesToPublicationGet
    \/ AddTablesCallback
    \/ RemovalGet
    \/ EntryMain
    \/ SyncFlowCallback
    \/ SleepCallback
    \/ MainFlowSignal
    \/ MainCDCProperties
    \/ MainLoopAgain
    \/ MainLoopFinished
    \/ SyncFlowAwaited
    \/ MainLoopEnds
    \/ ContinueAsNewCDCFlow

LiveNext ==
    \/ WorkflowStep
    \/ SendFlowSignal
    \/ SendCDCDynamicProperties
    \/ SetupFlowCompletes
    \/ SnapshotFlowCompletes
    \/ ActivityCompletes
    \/ AddTablesCDCFlowCompletes
    \/ SyncFlowCompletes
    \/ SleepCompletes

\* the worker runs the coroutine whenever it can take a step; children,
\* activities (which have a StartToCloseTimeout) and timers end; nothing
\* obliges the environment to send a signal
LiveSpec ==
    /\ LiveInit
    /\ [][LiveNext]_vars
    /\ WF_vars(WorkflowStep)
    /\ WF_vars(SetupFlowCompletes)
    /\ WF_vars(SnapshotFlowCompletes)
    /\ WF_vars(ActivityCompletes)
    /\ WF_vars(AddTablesCDCFlowCompletes)
    /\ WF_vars(SyncFlowCompletes)
    /\ WF_vars(SleepCompletes)

(* --------------- liveness with FlowStateChange requests ---------------- *)
\* the steps of the workflow coroutine of a mirror that gets FlowSignal
\* values and FlowStateChange requests and no config update
SignalWorkflowStep ==
    \/ EntrySetup
    \/ SetupPhaseStateChange
    \/ SetupFlowCallback
    \/ SnapshotFlowCallback
    \/ EntryPause
    \/ PauseFlowSignal
    \/ PauseStateChange
    \/ EntryMain
    \/ SyncFlowCallback
    \/ SleepCallback
    \/ MainFlowSignal
    \/ MainStateChange
    \/ MainLoopAgain
    \/ MainLoopFinished
    \/ SyncFlowAwaited
    \/ MainLoopEnds
    \/ ContinueAsNewCDCFlow

SignalNext ==
    \/ SignalWorkflowStep
    \/ SendFlowSignal
    \/ SendFlowStateChange
    \/ SetupFlowCompletes
    \/ SnapshotFlowCompletes
    \/ SyncFlowCompletes
    \/ SleepCompletes

\* the worker runs the coroutine whenever it can take a step; children,
\* activities and timers end; the environment may send signals or not
SignalSpec ==
    /\ LiveInit
    /\ [][SignalNext]_vars
    /\ WF_vars(SignalWorkflowStep)
    /\ WF_vars(SetupFlowCompletes)
    /\ WF_vars(SnapshotFlowCompletes)
    /\ WF_vars(SyncFlowCompletes)
    /\ WF_vars(SleepCompletes)

(* --------------------- snapshot-only mirrors --------------------------- *)
\* mirrors with InitialSnapshotOnly: a plain one and a resync
SnapshotOnlyConfigs ==
    { NewConfig(<<mA, mB>>, FALSE, TRUE),
      NewConfig(<<mR, mB>>, TRUE, TRUE) }

SnapshotOnlyInit == cfg \in SnapshotOnlyConfigs /\ InitRun

\* the steps of the workflow coroutine of a snapshot-only mirror
SnapshotOnlyWorkflowStep ==
    \/ EntrySetup
    \/ SetupPhaseStateChange
    \/ SetupFlowCallback
    \/ SnapshotFlowCallback
    \/ RenameTablesCallback
    \/ ContinueAsNewCDCFlow
    \/ EntryCompleted

SnapshotOnlyNext ==
    \/ SnapshotOnlyWorkflowStep
    \/ SendFlowSignal
    \/ SendFlowStateChange
    \/ SendCDCDynamicProperties
    \/ SetupFlowCompletes
    \/ SnapshotFlowCompletes
    \/ RenameTablesCompletes

\* the worker runs the coroutine whenever it can take a step; the children
\* and the rename activity end
SnapshotOnlySpec ==
    /\ SnapshotOnlyInit
    /\ [][SnapshotOnlyNext]_vars
    /\ WF_vars(SnapshotOnlyWorkflowStep)
    /\ WF_vars(SetupFlowCompletes)
    /\ WF_vars(SnapshotFlowCompletes)
    /\ WF_vars(RenameTablesCompletes)

(* ------------------- the specification for the catalog ----------------- *)
\* the catalog goes down or comes back: UpdateFlowStatusInCatalogActivity
\* and UpdateCDCConfigInCatalogActivity fail while it is down
CatalogOutage ==
    /\ Alive
    /\ catalogDown' = ~catalogDown
    /\ UNCHANGED << cfg, state, pc, outcome, chanVars, ctxErr, stageVars, mysqlVars, fired, readyBranch,
                    setupVars, updVars, mainVars, catalogStatus, catalogConfig, calls,
                    syncLive, statusTrail, runStart, obs >>

\* LiveNext keeps the model small enough to let the catalog go down and
\* come back at every write
CatalogNext == LiveNext \/ CatalogOutage

\* a plain mirror whose catalog may be down at any write
CatalogSpec == LiveInit /\ [][CatalogNext]_vars

(* ------------------- a mirror whose SyncFlow keeps failing ------------- *)
\* the most failures in a row a mirror has had
MaxFailures == 10

\* the State of a running mirror after n failures in a row, the last one
\* up to more than a day ago
FailingMirrorStates ==
    LET c == NewConfig(<<mA, mB>>, FALSE, FALSE)
    IN  { [updateStatus(NewCDCFlowWorkflowState(c), "STATUS_RUNNING") EXCEPT
              !.SyncFlowOptions.SrcTableIdNameMapping = SetupFlowOutput(c),
              !.ErrorCount = n, !.LastError = age] :
          n \in 0..MaxFailures, age \in 0..Older }

\* a run of the main loop of such a mirror whose SyncFlow has just failed
\* again
BackoffInit ==
    /\ cfg = NewConfig(<<mA, mB>>, FALSE, FALSE)
    /\ state \in FailingMirrorStates
    /\ pc = "main_select"
    /\ outcome = "running"
    /\ flowSignalChan = <<>>
    /\ flowSignalStateChangeChan = <<>>
    /\ cdcPropertiesSignalChan = <<>>
    /\ sent = [flowSignal |-> 0, stateChange |-> 0, cdcProps |-> 0]
    /\ ctxErr = FALSE
    /\ fired = {}
    /\ readyBranch = "sync"
    /\ originalTableMappings = <<>>
    /\ setupFlowFuture = "none"
    /\ snapshotFlowFuture = "none"
    /\ renameTablesFuture = "none"
    /\ childAddTablesCDCFlowFuture = "none"
    /\ activityFuture = "none"
    /\ syncFlowFuture = "err"
    /\ sleepFuture = NoTimer
    /\ finished = FALSE
    /\ finishedError = FALSE
    /\ catalogStatus = "STATUS_RUNNING"
    /\ catalogConfig = Nil
    /\ catalogDown = FALSE
    /\ calls = [NoCalls EXCEPT !.SyncFlow = 1]
    /\ syncLive = 0
    /\ setupFlowInput = Nil
    /\ snapshotFlowInput = Nil
    /\ renameTablesInput = Nil
    /\ statusTrail = <<"STATUS_RUNNING">>
    /\ runStart = RunStart(state)
    /\ obs = NoObs
    /\ ch_s3_stage = {}
    /\ avroCalls = <<>>
    /\ NewMySqlConnector

\* the failure is handled, the backoff sleep fires and the run ends
BackoffNext ==
    \/ SyncFlowCallback
    \/ MainLoopAgain
    \/ SleepCompletes
    \/ SleepCallback
    \/ MainLoopFinished
    \/ SyncFlowAwaited
    \/ MainLoopEnds

BackoffSpec == BackoffInit /\ [][BackoffNext]_vars

(* --------------------- the ch_s3_stage store --------------------------- *)
\* number of SetAvroStage / GetAvroStage calls made
MaxAvroCalls == 4

\* the keys (flow_job_name, sync_batch_id) used: two batches of one mirror
\* and a batch of another
StageKeys == { <<"m1", 1>>, <<"m1", 2>>, <<"m2", 1>> }

\* utils.AvroFile values: a staged file and its number of records
AvroFiles == { [FilePath |-> "f1", NumRecords |-> 1],
               [FilePath |-> "f2", NumRecords |-> 2] }

\* utils.AvroFile{}
ZeroAvroFile == [FilePath |-> "", NumRecords |-> 0]

\* json.Marshal(avroFile): the document as a list of members, name and
\* text, the number written in digits
jsonMarshal(avroFile) ==
    LET digits(n) == CASE n = 0 -> "0" [] n = 1 -> "1" [] n = 2 -> "2" [] OTHER -> "3"
    IN  << <<"filePath", avroFile.FilePath>>,
           <<"numRecords", digits(avroFile.NumRecords)>> >>

\* json.Unmarshal(avroFileJSON, &avroFile): members are looked up by name,
\* a missing member leaves the zero value
jsonUnmarshal(avroFileJSON) ==
    LET member(name, zero) ==
            IF \E i \in DOMAIN avroFileJSON : avroFileJSON[i][1] = name
            THEN avroFileJSON[CHOOSE i \in DOMAIN avroFileJSON : avroFileJSON[i][1] = name][2]
            ELSE zero
        number(text) == CASE text = "0" -> 0 [] text = "1" -> 1 [] text = "2" -> 2 [] OTHER -> 3
    IN  [FilePath |-> member("filePath", ""),
         NumRecords |-> number(member("numRecords", "0"))]

\* the rows of the table with a key
StageRows(flowJobName, syncBatchID) ==
    { r \in ch_s3_stage :
        r.flow_job_name = flowJobName /\ r.sync_batch_id = syncBatchID }

\* a SetAvroStage whose INSERT has no ON CONFLICT clause
SetAvroStageInsertOnly ==
    /\ Len(avroCalls) < MaxAvroCalls
    /\ \E key \in StageKeys, avroFile \in AvroFiles, failed \in BOOLEAN :
          LET row == [flow_job_name |-> key[1], sync_batch_id |-> key[2],
                      avro_file |-> jsonMarshal(avroFile),
                      created_at |-> Len(avroCalls) + 1]
          IN  /\ ch_s3_stage' = IF failed THEN ch_s3_stage ELSE ch_s3_stage \cup {row}
              /\ avroCalls' = Append(avroCalls,
                     [op |-> "SetAvroStage", flowJobName |-> key[1],
                      syncBatchID |-> key[2], avroFile |-> avroFile,
                      err |-> IF failed THEN "failed to set avro stage" ELSE "nil"])
    /\ UNCHANGED << cfg, state, pc, outcome, chanVars, ctxErr, fired, readyBranch,
                    setupVars, updVars, mainVars, catalogStatus, catalogConfig,
                    catalogDown, calls, syncLive, statusTrail, runStart, obs, mysqlVars >>

\* SetAvroStage: INSERT ... ON CONFLICT (flow_job_name, sync_batch_id) DO
\* UPDATE; a call that fails on the connection or the statement writes
\* nothing; CURRENT_TIMESTAMP is the number of the call
SetAvroStage ==
    /\ Len(avroCalls) < MaxAvroCalls
    /\ \E key \in StageKeys, avroFile \in AvroFiles, failed \in BOOLEAN :
          LET avroFileJSON == jsonMarshal(avroFile)
              now == Len(avroCalls) + 1
              conflict == StageRows(key[1], key[2])
              row == [flow_job_name |-> key[1], sync_batch_id |-> key[2],
                      avro_file |-> avroFileJSON, created_at |-> now]
          IN  /\ ch_s3_stage' =
                     IF failed THEN ch_s3_stage
                     ELSE IF conflict = {} THEN ch_s3_stage \cup {row}
                     ELSE { IF r \in conflict
                            THEN [r EXCEPT !.avro_file = avroFileJSON, !.created_at = now]
                            ELSE r : r \in ch_s3_stage }
              /\ avroCalls' = Append(avroCalls,
                     [op |-> "SetAvroStage", flowJobName |-> key[1],
                      syncBatchID |-> key[2], avroFile |-> avroFile,
                      err |-> IF failed THEN "failed to set avro stage" ELSE "nil"])
    /\ UNCHANGED << cfg, state, pc, outcome, chanVars, ctxErr, fired, readyBranch,
                    setupVars, updVars, mainVars, catalogStatus, catalogConfig,
                    catalogDown, calls, syncLive, statusTrail, runStart, obs, mysqlVars >>

\* GetAvroStage: SELECT avro_file ... WHERE the key; QueryRow takes one of
\* the rows found, pgx.ErrNoRows when there is none
GetAvroStage ==
    /\ Len(avroCalls) < MaxAvroCalls
    /\ \E key \in StageKeys, failed \in BOOLEAN :
          LET rows == StageRows(key[1], key[2])
              returns(avroFile, err) ==
                  avroCalls' = Append(avroCalls,
                      [op |-> "GetAvroStage", flowJobName |-> key[1],
                       syncBatchID |-> key[2], avroFile |-> avroFile, err |-> err])
          IN  IF failed THEN returns(ZeroAvroFile, "failed to get avro stage")
              ELSE IF rows = {} THEN returns(ZeroAvroFile, "no avro stage found")
              ELSE \E r \in rows : returns(jsonUnmarshal(r.avro_file), "nil")
    /\ UNCHANGED << cfg, state, pc, outcome, chanVars, ctxErr, fired, readyBranch,
                    setupVars, updVars, mainVars, catalogStatus, catalogConfig,
                    catalogDown, calls, syncLive, statusTrail, runStart, obs,
                    ch_s3_stage, mysqlVars >>

StageNext == SetAvroStage \/ GetAvroStage

\* the callers of the store, apart from the orchestrator
StageSpec == LiveInit /\ [][StageNext]_vars

(* ----------------- a paused mirror that gets a config update ----------- *)
\* the State a mirror is paused with: the main loop ended with ActiveSignal
\* Pause, after n syncs were asked for or none
PausedMirrorStates ==
    LET c == NewConfig(<<mA, mB>>, FALSE, FALSE)
    IN  { [updateStatus(NewCDCFlowWorkflowState(c), "STATUS_RUNNING") EXCEPT
              !.SyncFlowOptions.SrcTableIdNameMapping = SetupFlowOutput(c),
              !.SyncFlowOptions.NumberOfSyncs = n,
              !.ActiveSignal = "PauseSignal"] : n \in {0, 3} }

\* CDCFlowWorkflow entered by continue-as-new with the State of the run
\* before
EnteredWithState ==
    /\ cfg = NewConfig(<<mA, mB>>, FALSE, FALSE)
    /\ pc = "entry"
    /\ outcome = "running"
    /\ flowSignalChan = <<>>
    /\ flowSignalStateChangeChan = <<>>
    /\ cdcPropertiesSignalChan = <<>>
    /\ sent = [flowSignal |-> 0, stateChange |-> 0, cdcProps |-> 0]
    /\ ctxErr = FALSE
    /\ fired = {}
    /\ readyBranch = "none"
    /\ originalTableMappings = <<>>
    /\ setupFlowFuture = "none"
    /\ snapshotFlowFuture = "none"
    /\ renameTablesFuture = "none"
    /\ childAddTablesCDCFlowFuture = "none"
    /\ activityFuture = "none"
    /\ syncFlowFuture = "none"
    /\ sleepFuture = NoTimer
    /\ finished = FALSE
    /\ finishedError = FALSE
    /\ catalogStatus = "STATUS_RUNNING"
    /\ catalogConfig = Nil
    /\ catalogDown = FALSE
    /\ calls = NoCalls
    /\ syncLive = 0
    /\ setupFlowInput = Nil
    /\ snapshotFlowInput = Nil
    /\ renameTablesInput = Nil
    /\ statusTrail = <<>>
    /\ runStart = RunStart(state)
    /\ obs = NoObs
    /\ ch_s3_stage = {}
    /\ avroCalls = <<>>
    /\ NewMySqlConnector

PausedInit == state \in PausedMirrorStates /\ EnteredWithState

\* the table changes a config update may carry: none, a new table or a
\* table that overlaps a live one, each with or without a removal
TableConfigUpdates ==
    { CfgUpdate(Knobs(0), 0, add, rem, NoEnv) :
        add \in {<<>>, <<mC>>, <<mD>>}, rem \in {<<>>, <<mB>>} }

SendTableConfigUpdate ==
    /\ MaySend /\ sent.cdcProps < MaxConfigUpdates
    /\ \E u \in TableConfigUpdates :
          cdcPropertiesSignalChan' = Append(cdcPropertiesSignalChan, u)
    /\ sent' = [sent EXCEPT !.cdcProps = @ + 1]
    /\ Arrive("cdcProps")
    /\ UNCHANGED << cfg, state, pc, outcome, flowSignalChan,
                    flowSignalStateChangeChan, ctxErr, catalogDown, stageVars, mysqlVars, fired, setupVars, updVars, mainVars, catalogStatus, catalogConfig, calls, syncLive, statusTrail, runStart, obs >>

\* the steps of the workflow coroutine in the pause loop and in the
\* processing of a config update
PausedWorkflowStep ==
    \/ EntryPause
    \/ PauseCtxDone
    \/ PauseFlowSignal
    \/ PauseStateChange
    \/ PauseCDCProperties
    \/ ProcessCDCFlowConfigUpdate
    \/ AddTablesToPublicationGet
    \/ AddTablesStateChange
    \/ AddTablesCtxDone
    \/ AddTablesCallback
    \/ RemovalGet

PausedNext ==
    \/ PausedWorkflowStep
    \/ SendFlowSignal
    \/ SendFlowStateChange
    \/ SendTableConfigUpdate
    \/ CancelWorkflow
    \/ ActivityCompletes
    \/ AddTablesCDCFlowCompletes

\* the worker runs the coroutine whenever it can take a step; the child and
\* the activities (which have a StartToCloseTimeout) end; nothing obliges
\* the environment to send a signal or to cancel
PausedSpec ==
    /\ PausedInit
    /\ [][PausedNext]_vars
    /\ WF_vars(PausedWorkflowStep)
    /\ WF_vars(ActivityCompletes)
    /\ WF_vars(AddTablesCDCFlowCompletes)

(* --------------- a paused mirror with a stored config update ----------- *)
\* the options a config update may carry: every knob zero or positive
OptionKnobs ==
    [BatchSize : {0, 2}, IdleTimeout : {0, 2}, SnapshotNumRowsPerPartition : {0, 2},
     SnapshotMaxParallelWorkers : {0, 2}, SnapshotNumTablesInParallel : {0, 2}]

\* NumberOfSyncs is an int32: negative, zero or positive
OptionConfigUpdates ==
    { CfgUpdate(k, nos, add, rem, NoEnv) :
        k \in OptionKnobs, nos \in {0 - 1, 0, 2},
        add \in {<<>>, <<mC>>}, rem \in {<<>>, <<mB>>} }

\* the run is entered paused with the update already in the State
OptionsInit ==
    /\ state \in { [s EXCEPT !.FlowConfigUpdate = u] :
                      s \in PausedMirrorStates, u \in OptionConfigUpdates }
    /\ EnteredWithState

OptionsNext ==
    \/ EntryPause
    \/ ProcessCDCFlowConfigUpdate
    \/ ActivityCompletes
    \/ AddTablesToPublicationGet
    \/ AddTablesCDCFlowCompletes
    \/ AddTablesCallback
    \/ RemovalGet

OptionsSpec == OptionsInit /\ [][OptionsNext]_vars

(* ------------- a running mirror with a stored config update ------------ *)
\* a config update that takes table b out of the mirror
StoredUpdate == CfgUpdate(Knobs(0), 0, <<>>, <<mB>>, NoEnv)

\* a run of the main loop entered with the update that the listener of the
\* run before stored in the State (lines 405-408, 832, 873)
StoredUpdateInit ==
    /\ state \in { [s EXCEPT !.ActiveSignal = "NoopSignal",
                              !.FlowConfigUpdate = StoredUpdate] : s \in PausedMirrorStates }
    /\ EnteredWithState

\* the main loop, the pause loop and config update processing, with
\* FlowSignal values and one more config update from the environment
StoredUpdateNext ==
    \/ EntryMain
    \/ SyncFlowCallback
    \/ SleepCallback
    \/ MainFlowSignal
    \/ MainCDCProperties
    \/ MainLoopAgain
    \/ MainLoopFinished
    \/ SyncFlowAwaited
    \/ MainLoopEnds
    \/ ContinueAsNewCDCFlow
    \/ EntryPause
    \/ PauseFlowSignal
    \/ PauseCDCProperties
    \/ ProcessCDCFlowConfigUpdate
    \/ AddTablesToPublicationGet
    \/ AddTablesCallback
    \/ RemovalGet
    \/ SendFlowSignal
    \/ SendCDCDynamicProperties
    \/ ActivityCompletes
    \/ AddTablesCDCFlowCompletes
    \/ SyncFlowCompletes
    \/ SleepCompletes

StoredUpdateSpec == StoredUpdateInit /\ [][StoredUpdateNext]_vars

(* ---------------------- calls on the MySQL connector -------------------- *)
MySqlNext ==
    \/ watchCtx
    \/ CancelContext
    \/ watcher
    \/ connect
    \/ withRetries

MySqlSpec == LiveInit /\ [][MySqlNext]_vars

(* ------------------------------ properties ----------------------------- *)
MainPcs == {"main_select", "main_drain", "main_cancelwait", "main_drain2"}

ContinuedAsNew == pc = "done" /\ outcome \in {"can_cdc", "can_drop"}

\* the run that has just ended was a run of the main loop
EndedMainLoop == ContinuedAsNew /\ calls.SyncFlow = 1

\* C1: a run of the main loop that has handled a FlowStateChange request for
\* Terminating or Resync and is not cancelled ends by continuing-as-new into
\* DropFlowWorkflow with the DropFlowInput it prepared, whatever the sync
\* activity does in that run
DropRequestEndsInDropFlow ==
    (EndedMainLoop /\ obs.dropRequestInMainLoop) =>
        (outcome = "can_drop" /\ state.DropFlowInput # Nil)

\* a non-overlapping AdditionalTables update is stored and not yet processed
PendingAdditions ==
    /\ state # Nil
    /\ state.FlowConfigUpdate # Nil
    /\ Len(state.FlowConfigUpdate.AdditionalTables) > 0
    /\ ~AdditionalTablesHasOverlap(state.SyncFlowOptions.TableMappings,
                                   state.FlowConfigUpdate.AdditionalTables)

\* the run has processed additional tables and resumes
AdditionsProcessed ==
    /\ pc = "done" /\ outcome = "can_cdc"
    /\ calls.AddTablesCDCFlow = 1
    /\ state.FlowConfigUpdate = Nil
    /\ state.CurrentFlowStatus = "STATUS_RUNNING"
    /\ catalogConfig # Nil
    /\ catalogConfig.TableMappings = state.SyncFlowOptions.TableMappings

RunFailed == pc = "done" /\ outcome = "return_failed"

AdditionsMergedStep ==
    (pc = "addtables_select" /\ pc' = "done" /\ outcome' = "can_cdc") =>
        /\ state'.SyncFlowOptions.TableMappings =
               state.SyncFlowOptions.TableMappings \o state.FlowConfigUpdate.AdditionalTables
        /\ catalogConfig'.TableMappings = state'.SyncFlowOptions.TableMappings
        /\ statusTrail' = <<"STATUS_PAUSED", "STATUS_SNAPSHOT", "STATUS_RUNNING">>

CancelledRunWritesTerminated ==
    (pc = "done" /\ outcome = "return_cancelled") =>
        /\ state.CurrentFlowStatus = "STATUS_TERMINATED"
        /\ catalogStatus = "STATUS_TERMINATED"

\* C4: whenever a run continues-as-new into DropFlowWorkflow, DropFlowInput
\* is set, with its config, and its Resync is true exactly when the decision
\* was Resync and false when it was Terminate
DropFlowInputMatchesDecision ==
    (pc = "done" /\ outcome = "can_drop") =>
        /\ state.DropFlowInput # Nil
        /\ state.DropFlowInput.FlowConnectionConfigs # Nil
        /\ state.ActiveSignal \in {"TerminateSignal", "ResyncSignal"}
        /\ state.DropFlowInput.Resync = (state.ActiveSignal = "ResyncSignal")

\* a main loop run that was asked to resync continues into DropFlowWorkflow
ResyncDropFromMainLoop ==
    /\ EndedMainLoop /\ outcome = "can_drop"
    /\ state.ActiveSignal = "ResyncSignal"
    /\ state.DropFlowInput.Resync

\* C5: the status of the last status-update call to the catalog is the
\* CurrentFlowStatus of the State, at every point where the workflow waits,
\* returns or continues-as-new; no status is assigned without its call
StatusMirroredToCatalog ==
    state # Nil =>
        /\ catalogStatus = state.CurrentFlowStatus
        /\ statusTrail # <<>> => statusTrail[Len(statusTrail)] = state.CurrentFlowStatus

\* a run has passed through three statuses, each with its call
ThreeStatusCalls ==
    /\ state # Nil
    /\ Len(statusTrail) = 3
    /\ catalogStatus = "STATUS_RUNNING"

StatusRank(st) ==
    CASE st = "STATUS_SETUP" -> 0
      [] st = "STATUS_SNAPSHOT" -> 1
      [] st \in {"STATUS_RUNNING", "STATUS_PAUSED"} -> 2
      [] OTHER -> 3

\* a move the order allows: forward, between Paused and Running, or to
\* Resync from a non-terminal status
MonotoneMove(a, b) ==
    \/ StatusRank(a) <= StatusRank(b)
    \/ b = "STATUS_RESYNC" /\ a \notin {"STATUS_COMPLETED", "STATUS_TERMINATED"}

\* C6, as stated: within a run CurrentFlowStatus never moves backward in the
\* order Setup < Snapshot < {Running, Paused} < {Completed, Terminated},
\* but for the moves between Paused and Running and a move to Resync
StatusMonotone ==
    [][(state # Nil /\ state' # Nil) =>
          MonotoneMove(state.CurrentFlowStatus, state'.CurrentFlowStatus)]_vars

\* C6, amended: the same, but for one more move: Paused to Snapshot, when
\* the pause loop starts to process additional tables
StatusMonotoneButAdditions ==
    [][(state # Nil /\ state' # Nil) =>
          \/ MonotoneMove(state.CurrentFlowStatus, state'.CurrentFlowStatus)
          \/ /\ state.CurrentFlowStatus = "STATUS_PAUSED"
             /\ state'.CurrentFlowStatus = "STATUS_SNAPSHOT"
             /\ pc = "process_update" /\ pc' = "addpub_get"]_vars

\* the pause loop has moved the status from Paused to Snapshot
PausedToSnapshot ==
    /\ pc = "addpub_get"
    /\ statusTrail = <<"STATUS_PAUSED", "STATUS_SNAPSHOT">>
    /\ state.CurrentFlowStatus = "STATUS_SNAPSHOT"

\* the ErrorCount a preserved counter has at the end of a main loop run
PreservedErrorCount ==
    IF obs.sleepFired THEN (IF obs.errorReset THEN 0 ELSE runStart.ErrorCount) + 1
    ELSE IF obs.syncSucceeded \/ obs.errorReset THEN 0
    ELSE runStart.ErrorCount

\* C7: when the main loop continues-as-new into CDCFlowWorkflow, ErrorCount
\* is 0 only after a clean sync or a LastError older than a day, one more
\* than before when the backoff sleep fired, and unchanged otherwise
ErrorCountPreserved ==
    (EndedMainLoop /\ outcome = "can_cdc") => state.ErrorCount = PreservedErrorCount

\* C8: at most one SyncFlow activity is live: a run of the main loop starts
\* exactly one, and a run continues-as-new only when none is live, the one
\* it started having been awaited
OneLiveSyncFlow ==
    /\ syncLive <= 1
    /\ calls.SyncFlow <= 1
    /\ pc \in MainPcs => calls.SyncFlow = 1
    /\ ContinuedAsNew => syncLive = 0

\* a main loop run continues-as-new after its cancelled SyncFlow returned
CancelledSyncFlowAwaited ==
    /\ EndedMainLoop
    /\ syncFlowFuture = "canceled"
    /\ syncLive = 0

\* the mappings carry the suffix, once, where the engine is not NULL
ResyncSuffixed(tms) ==
    /\ DOMAIN tms = DOMAIN originalTableMappings
    /\ \A i \in DOMAIN tms :
          originalTableMappings[i].Engine # NullEngine =>
              /\ tms[i].DestinationTableIdentifier =
                     originalTableMappings[i].DestinationTableIdentifier \o <<ResyncSuffix>>
              /\ tms[i].DestinationTableIdentifier #
                     originalTableMappings[i].DestinationTableIdentifier

\* C9: in a resync run the configs given to SetupFlowWorkflow and to
\* SnapshotFlowWorkflow name, for every mapping whose engine is not NULL, the
\* destination original + "_resync" and never the original; RenameTables runs
\* at most once in a run, after the snapshot, from the suffixed names to the
\* original ones
ResyncUsesShadowTables ==
    /\ (setupFlowInput # Nil /\ setupFlowInput.Resync) =>
           ResyncSuffixed(setupFlowInput.TableMappings)
    /\ (snapshotFlowInput # Nil /\ snapshotFlowInput.Resync) =>
           ResyncSuffixed(snapshotFlowInput.TableMappings)
    /\ calls.RenameTables <= 1
    /\ calls.RenameTables = 1 =>
           /\ snapshotFlowFuture = "ok"
           /\ \A i \in DOMAIN originalTableMappings :
                 originalTableMappings[i].Engine # NullEngine =>
                     renameTablesInput[i] =
                         [CurrentName |-> originalTableMappings[i].DestinationTableIdentifier
                                              \o <<ResyncSuffix>>,
                          NewName |-> originalTableMappings[i].DestinationTableIdentifier]

\* a resync run waits for RenameTables after a snapshot into suffixed tables
ResyncRenameStarted ==
    /\ pc = "rename_select"
    /\ snapshotFlowInput # Nil /\ snapshotFlowInput.Resync
    /\ calls.RenameTables = 1

\* C10: after the Setup, Snapshot and RenameTables pass of a resync every
\* destination identifier of the live TableMappings is what it was before
\* the pass, also when it ends in "_resync" itself, and a mapping whose
\* engine is NULL is not altered at any point of the pass
ResyncRoundTrip ==
    /\ (pc = "done" /\ outcome = "can_cdc" /\ calls.RenameTables = 1) =>
           /\ DOMAIN state.SyncFlowOptions.TableMappings = DOMAIN originalTableMappings
           /\ \A i \in DOMAIN originalTableMappings :
                 state.SyncFlowOptions.TableMappings[i].DestinationTableIdentifier =
                     originalTableMappings[i].DestinationTableIdentifier
    /\ setupFlowInput # Nil =>
           \A i \in DOMAIN originalTableMappings :
               originalTableMappings[i].Engine = NullEngine =>
                   state.SyncFlowOptions.TableMappings[i] = originalTableMappings[i]

\* the pass is over for a serving table whose own name ends in the suffix
ResyncRoundTripDone ==
    /\ pc = "done" /\ outcome = "can_cdc" /\ calls.RenameTables = 1
    /\ originalTableMappings[1].DestinationTableIdentifier = <<"A", ResyncSuffix>>
    /\ state.SyncFlowOptions.TableMappings[1].DestinationTableIdentifier = <<"A", ResyncSuffix>>

(* ------------------------ tables added and removed --------------------- *)
Sources(tms) == { tms[i].SourceTableIdentifier : i \in DOMAIN tms }

\* the run has taken up an update whose additional tables are not empty and
\* overlap no mapping of the State
ProcessingAdditions ==
    /\ obs.processing # Nil
    /\ Len(obs.processing.FlowConfigUpdate.AdditionalTables) > 0
    /\ ~AdditionalTablesHasOverlap(obs.processing.TableMappings,
                                   obs.processing.FlowConfigUpdate.AdditionalTables)

\* add-tables processing has completed: the child is done, no Terminate or
\* Resync came, and the run is in the removals or has resumed
AdditionsCompleted ==
    /\ ProcessingAdditions
    /\ calls.AddTablesCDCFlow = 1
    /\ "addTables" \in fired
    /\ \/ pc \in {"rmpub_get", "rmraw_get", "rmcat_get"}
       \/ /\ pc = "done" /\ outcome = "can_cdc"
          /\ Len(obs.processing.FlowConfigUpdate.RemovedTables) = 0

\* C11: once the processing of non-empty, non-overlapping AdditionalTables
\* has completed, the live TableMappings are the mappings from before the
\* update followed by the additional ones: longer by exactly
\* Len(AdditionalTables)
AdditionalTablesAppended ==
    AdditionsCompleted =>
        LET before == obs.processing.TableMappings
            additional == obs.processing.FlowConfigUpdate.AdditionalTables
            live == state.SyncFlowOptions.TableMappings
        IN  /\ Len(live) = Len(before) + Len(additional)
            /\ \A i \in DOMAIN before : live[i] = before[i]
            /\ \A i \in DOMAIN additional : live[Len(before) + i] = additional[i]

\* one table has been added to two
ThirdTableAppended ==
    /\ AdditionsCompleted
    /\ pc = "done"
    /\ Len(obs.processing.TableMappings) = 2
    /\ Len(state.SyncFlowOptions.TableMappings) = 3
    /\ state.SyncFlowOptions.TableMappings[3] = mC

\* the run has processed the removals of an update and resumes
RemovalsCompleted ==
    /\ obs.processing # Nil
    /\ Len(obs.processing.FlowConfigUpdate.RemovedTables) > 0
    /\ calls.RemoveTablesFromCatalog = 1
    /\ pc = "done" /\ outcome = "can_cdc"

\* the mappings the removals are applied to
MappingsBeforeRemovals ==
    IF calls.AddTablesCDCFlow = 1
    THEN obs.processing.TableMappings \o obs.processing.FlowConfigUpdate.AdditionalTables
    ELSE obs.processing.TableMappings

\* C12: after the RemovedTables of an update have been processed, no live
\* mapping has a removed source and no SrcTableIdNameMapping entry a removed
\* name; every other mapping and entry is kept, the mappings in their order
RemovedTablesGone ==
    RemovalsCompleted =>
        LET removed == Sources(obs.processing.FlowConfigUpdate.RemovedTables)
            before == MappingsBeforeRemovals
            idsBefore == obs.processing.SrcTableIdNameMapping
            live == state.SyncFlowOptions.TableMappings
            ids == state.SyncFlowOptions.SrcTableIdNameMapping
        IN  /\ \A i \in DOMAIN live : live[i].SourceTableIdentifier \notin removed
            /\ \A k \in DOMAIN ids : ids[k] \notin removed
            /\ Len(live) = Cardinality({ i \in DOMAIN before :
                                           before[i].SourceTableIdentifier \notin removed })
            /\ \A i \in DOMAIN before :
                  before[i].SourceTableIdentifier \notin removed =>
                      \E j \in DOMAIN live : live[j] = before[i]
            /\ \A i, j \in DOMAIN live :
                  i < j => \E a, b \in DOMAIN before :
                              a < b /\ before[a] = live[i] /\ before[b] = live[j]
            /\ \A k \in DOMAIN idsBefore :
                  idsBefore[k] \notin removed => (k \in DOMAIN ids /\ ids[k] = idsBefore[k])

\* table b has been removed from a mirror of a and b
SecondTableRemoved ==
    /\ RemovalsCompleted
    /\ obs.processing.TableMappings = <<mA, mB>>
    /\ state.SyncFlowOptions.TableMappings = <<mA>>
    /\ DOMAIN state.SyncFlowOptions.SrcTableIdNameMapping = {TableOid("a")}

\* every name of SrcTableIdNameMapping is the source of a live mapping
IdNamesAreSources(s) ==
    \A k \in DOMAIN s.SyncFlowOptions.SrcTableIdNameMapping :
        s.SyncFlowOptions.SrcTableIdNameMapping[k] \in Sources(s.SyncFlowOptions.TableMappings)

\* an entry is dropped in a step exactly when the step drops the mapping
\* with its source
IdDroppedWithMapping(s, t) ==
    \A k \in DOMAIN s.SyncFlowOptions.SrcTableIdNameMapping :
        (k \notin DOMAIN t.SyncFlowOptions.SrcTableIdNameMapping)
            <=> (s.SyncFlowOptions.SrcTableIdNameMapping[k]
                    \notin Sources(t.SyncFlowOptions.TableMappings))

\* C13: in every State each qualified name of SrcTableIdNameMapping is the
\* SourceTableIdentifier of a live mapping, through setup, additions and
\* removals, and an entry leaves SrcTableIdNameMapping exactly in the step
\* in which the mapping with that source leaves TableMappings
IdMappingFollowsTableMappings ==
    /\ [](state # Nil => IdNamesAreSources(state))
    /\ [][(state # Nil /\ state' # Nil) => IdDroppedWithMapping(state, state')]_vars

\* the entry of table b has left SrcTableIdNameMapping with its mapping
IdDroppedByRemoval ==
    /\ state # Nil /\ obs.processing # Nil
    /\ TableOid("b") \in DOMAIN obs.processing.SrcTableIdNameMapping
    /\ TableOid("b") \notin DOMAIN state.SyncFlowOptions.SrcTableIdNameMapping
    /\ "b" \in Sources(obs.processing.TableMappings)
    /\ "b" \notin Sources(state.SyncFlowOptions.TableMappings)

(* ----------------------------- ActiveSignal ---------------------------- *)
\* the step receives a value from the FlowSignal channel
FlowSignalDelivered == Len(flowSignalChan') < Len(flowSignalChan)

\* the step folds the delivered value into ActiveSignal
FoldStep ==
    state'.ActiveSignal = FlowSignalHandler(state.ActiveSignal, Head(flowSignalChan))

\* the step writes a Terminating or Resync request into ActiveSignal
DropDecisionStep ==
    /\ Len(flowSignalStateChangeChan') < Len(flowSignalStateChangeChan)
    /\ state'.ActiveSignal \in {"TerminateSignal", "ResyncSignal"}

\* lines 508-511: the end of config update processing clears ActiveSignal
UpdateClearStep ==
    /\ state.FlowConfigUpdate # Nil /\ state'.FlowConfigUpdate = Nil
    /\ state'.ActiveSignal = "NoopSignal"

\* lines 786-788 and 793-795: a sync count is configured and the sync
\* completed or its backoff sleep fired
SyncCountPauseStep ==
    /\ state.SyncFlowOptions.NumberOfSyncs > 0
    /\ pc \in MainPcs /\ finished'
    /\ fired' \in {fired \cup {"sync"}, fired \cup {"sleep"}}
    /\ state'.ActiveSignal = "PauseSignal"

\* C14 as stated: the ActiveSignal is the left fold of FlowSignalHandler
\* over the Pause/Noop values delivered, from the initial ActiveSignal: each
\* delivery applies FlowSignalHandler and, requests to drop apart, no other
\* step of the orchestrator changes ActiveSignal
ActiveSignalIsFold ==
    [][(state # Nil /\ state' # Nil) =>
          IF FlowSignalDelivered THEN FoldStep
          ELSE \/ state'.ActiveSignal = state.ActiveSignal
               \/ DropDecisionStep]_vars

\* C14: each delivery of a Pause/Noop value applies FlowSignalHandler to
\* ActiveSignal, and between deliveries ActiveSignal is written only by a
\* Terminating or Resync request, by the end of config update processing
\* (Noop) and by the sync count of NumberOfSyncs > 0 (Pause): ActiveSignal is
\* the left fold over the values delivered since the last of those writes
ActiveSignalIsFoldSinceLastWrite ==
    [][(state # Nil /\ state' # Nil) =>
          IF FlowSignalDelivered THEN FoldStep
          ELSE \/ state'.ActiveSignal = state.ActiveSignal
               \/ DropDecisionStep
               \/ UpdateClearStep
               \/ SyncCountPauseStep]_vars

\* a paused run took a Pause and a Noop from the channel and resumes
PauseThenNoopFolded ==
    /\ pc = "done" /\ outcome = "can_cdc"
    /\ statusTrail = <<"STATUS_PAUSED", "STATUS_RUNNING">>
    /\ sent = [flowSignal |-> 2, stateChange |-> 0, cdcProps |-> 0]
    /\ flowSignalChan = <<>>
    /\ state.ActiveSignal = "NoopSignal"

(* --------------------------- FlowStateChange --------------------------- *)
\* the step receives a request from the FlowStateChange channel
StateChangeDelivered ==
    Len(flowSignalStateChangeChan') < Len(flowSignalStateChangeChan)

\* C15: every requested state is acted on by the step that receives it: a
\* Paused request received in the main loop records the pause (the run ends
\* and the next one enters the pause loop), a Running request received in
\* the pause loop leaves the pause, and a Terminating or Resync request
\* prepares the continue-as-new into DropFlowWorkflow
StateChangeHonored ==
    [][(state # Nil /\ state' # Nil /\ StateChangeDelivered) =>
          LET val == Head(flowSignalStateChangeChan)
          IN  /\ (val = "STATUS_PAUSED" /\ pc \in MainPcs) =>
                     (finished' /\ state'.ActiveSignal = "PauseSignal")
              /\ (val = "STATUS_RUNNING" /\ pc = "pause_select"
                      /\ state.ActiveSignal = "PauseSignal") =>
                     state'.ActiveSignal # "PauseSignal"
              /\ (val \in {"STATUS_TERMINATING", "STATUS_RESYNC"}) =>
                     (DropRequested(state') /\ state'.DropFlowInput # Nil)]_vars

(* ------------------------- catalog write failures ---------------------- *)
\* a child workflow or an activity the run waited for has failed
ChildOrActivityFailed ==
    "err" \in {setupFlowFuture, snapshotFlowFuture, renameTablesFuture,
               childAddTablesCDCFlowFuture, activityFuture}

PauseTaken ==
    /\ pc \in MainPcs
    /\ state.CurrentFlowStatus = "STATUS_RUNNING"
    /\ state.ActiveSignal = "PauseSignal"

\* the status is Paused, or a later signal has replaced the Pause
PausedOrOverridden ==
    /\ state # Nil
    /\ \/ state.CurrentFlowStatus = "STATUS_PAUSED"
       \/ state.ActiveSignal # "PauseSignal"

\* the step receives a Terminating request in the pause loop
TerminatingWhilePaused ==
    /\ pc = "pause_select"
    /\ StateChangeDelivered
    /\ Head(flowSignalStateChangeChan) = "STATUS_TERMINATING"

NoSignalSent == sent = [flowSignal |-> 0, stateChange |-> 0, cdcProps |-> 0]

\* a fresh orchestrator of a snapshot-only mirror
FreshSnapshotOnly ==
    /\ pc = "entry" /\ state = Nil
    /\ cfg.InitialSnapshotOnly
    /\ NoSignalSent

\* the orchestrator has returned with status Completed
ReturnedCompleted ==
    /\ pc = "done" /\ outcome = "return"
    /\ state.CurrentFlowStatus = "STATUS_COMPLETED"

\* C18: with InitialSnapshotOnly and no signal a fresh orchestrator ends with
\* status Completed unless a child or the rename fails; status Completed is
\* set only once Setup and Snapshot have succeeded, and no SyncFlow is
\* started, neither in the run that sets Completed nor in the next, which
\* returns at once
SnapshotOnlyCompletes ==
    /\ FreshSnapshotOnly ~>
            (ReturnedCompleted \/ outcome = "return_failed" \/ ~NoSignalSent)
    /\ [](cfg.InitialSnapshotOnly => (calls.SyncFlow = 0 /\ syncLive = 0))
    /\ [][(state # Nil /\ state'.CurrentFlowStatus = "STATUS_COMPLETED"
              /\ state.CurrentFlowStatus # "STATUS_COMPLETED") =>
               (setupFlowFuture = "ok" /\ snapshotFlowFuture' = "ok"
                   /\ outcome' = "can_cdc")]_vars
    /\ [][(pc = "entry" /\ pc' # "entry" /\ state # Nil
              /\ state.CurrentFlowStatus = "STATUS_COMPLETED")
              => (outcome' = "return" /\ state' = state)]_vars

\* a plain snapshot-only mirror that got no signal has returned Completed
SnapshotOnlyReturned ==
    /\ ReturnedCompleted
    /\ NoSignalSent
    /\ ~cfg.Resync /\ cfg.InitialSnapshotOnly
    /\ calls.SyncFlow = 0 /\ syncLive = 0
    /\ DOMAIN state.SyncFlowOptions.SrcTableIdNameMapping # {}

(* ------------------------------ clean start --------------------------- *)
\* a fresh orchestrator of a mirror that goes on to CDC
FreshMirror ==
    /\ pc = "entry" /\ state = Nil
    /\ ~cfg.InitialSnapshotOnly
    /\ NoSignalSent

\* status Running, the table ids of Setup in the State, SyncFlow started
RunningWithSyncFlow ==
    /\ pc \in MainPcs
    /\ state.CurrentFlowStatus = "STATUS_RUNNING"
    /\ state.SyncFlowOptions.SrcTableIdNameMapping = SetupFlowOutput(cfg)
    /\ DOMAIN state.SyncFlowOptions.SrcTableIdNameMapping # {}
    /\ calls.SyncFlow = 1

IsPrefix(s, t) == Len(s) <= Len(t) /\ \A i \in DOMAIN s : s[i] = t[i]

\* C19: with no signal a fresh orchestrator whose children succeed reaches
\* status Running with SrcTableIdNameMapping the output of Setup and a
\* SyncFlow started; the run of the setup phase passes the statuses Setup,
\* Snapshot, Running in this order, Running only once the snapshot child
\* has succeeded, and SyncFlow is started only from status Running
CleanStartReachesRunning ==
    /\ FreshMirror ~>
            (RunningWithSyncFlow \/ outcome = "return_failed" \/ ~NoSignalSent)
    /\ [](calls.SetupFlow = 1 =>
             IsPrefix(statusTrail, <<"STATUS_SETUP", "STATUS_SNAPSHOT", "STATUS_RUNNING">>))
    /\ [][(state # Nil /\ calls.SetupFlow = 1
              /\ state'.CurrentFlowStatus = "STATUS_RUNNING"
              /\ state.CurrentFlowStatus # "STATUS_RUNNING") =>
               (setupFlowFuture = "ok" /\ snapshotFlowFuture = "ok")]_vars
    /\ [][(calls'.SyncFlow = 1 /\ calls.SyncFlow = 0) =>
               (state.CurrentFlowStatus = "STATUS_RUNNING" /\ calls.SnapshotFlow = 0
                   /\ snapshotFlowFuture = "none")]_vars

\* the first run of the main loop of a mirror that got no signal
CleanStartRunning ==
    /\ RunningWithSyncFlow
    /\ NoSignalSent
    /\ syncLive = 1
    /\ state.SyncFlowOptions.TableMappings = <<mA, mB>>
    /\ state.ErrorCount = 0

(* ------------------------------ determinism ---------------------------- *)
OutcomeKinds == {"running", "return", "return_cancelled", "return_failed",
                 "can_cdc", "can_drop"}
FlowStatuses == {"STATUS_SETUP", "STATUS_SNAPSHOT", "STATUS_RUNNING", "STATUS_PAUSED",
                 "STATUS_COMPLETED", "STATUS_TERMINATED"}
ActiveSignals == {"NoopSignal", "PauseSignal", "TerminateSignal", "ResyncSignal"}
SourceNames == {"a", "b", "c", "d"}

\* a step of the coroutine with the error class of a failed SyncFlow given
\* and the clock reading one of dts
StepWithin(dts, err) ==
    \/ \E dt \in dts : SyncFlowCallbackAt(dt, err)
    \/ WorkflowStep /\ ~SyncFlowCallback

AtMostOne(S) == Cardinality(S) <= 1

\* every step StepWithin(dts, err) can take from the current state leads to
\* the same outcome and the same State
StepDetermined(dts, err) ==
    /\ AtMostOne({ o \in OutcomeKinds : ENABLED (StepWithin(dts, err) /\ outcome' = o) })
    /\ AtMostOne({ st \in FlowStatuses :
                      ENABLED (StepWithin(dts, err) /\ state'.CurrentFlowStatus = st) })
    /\ AtMostOne({ a \in ActiveSignals :
                      ENABLED (StepWithin(dts, err) /\ state'.ActiveSignal = a) })
    /\ AtMostOne({ n \in 0..(MaxErrorCount + 1) :
                      ENABLED (StepWithin(dts, err) /\ state'.ErrorCount = n) })
    /\ AtMostOne({ n \in 0..4 :
                      ENABLED (StepWithin(dts, err)
                                  /\ Len(state'.SyncFlowOptions.TableMappings) = n) })
    /\ AtMostOne({ srcs \in SUBSET SourceNames :
                      ENABLED (StepWithin(dts, err)
                                  /\ Sources(state'.SyncFlowOptions.TableMappings) = srcs) })
    /\ AtMostOne({ ids \in SUBSET (1..4) :
                      ENABLED (StepWithin(dts, err)
                                  /\ DOMAIN state'.SyncFlowOptions.SrcTableIdNameMapping = ids) })

CleanSyncStep ==
    /\ pc \in MainPcs
    /\ syncFlowFuture = "ok"
    /\ "sync" \notin fired /\ "sync" \in fired'

\* the step is the entry of a run continued from a run of the main loop or
\* of the pause loop
EntryOfContinuedRun ==
    /\ pc = "entry" /\ pc' # "entry"
    /\ state # Nil /\ state.CurrentFlowStatus = "STATUS_RUNNING"

\* the run goes to the pause loop with status Paused and starts no SyncFlow
EntersPauseLoop ==
    /\ pc' \in {"pause_select", "process_update"}
    /\ state'.CurrentFlowStatus = "STATUS_PAUSED"
    /\ calls'.SyncFlow = 0 /\ syncLive' = syncLive

\* the run goes to the main loop and starts a SyncFlow
EntersMainLoop ==
    /\ pc' = "main_select"
    /\ state'.CurrentFlowStatus = "STATUS_RUNNING"
    /\ calls'.SyncFlow = 1 /\ syncLive' = syncLive + 1

SetsBefore(i) ==
    { j \in 1..(i - 1) :
        /\ avroCalls[j].op = "SetAvroStage" /\ avroCalls[j].err = "nil"
        /\ avroCalls[j].flowJobName = avroCalls[i].flowJobName
        /\ avroCalls[j].syncBatchID = avroCalls[i].syncBatchID }

\* the last of a non-empty set of calls
LastOf(S) == CHOOSE j \in S : \A k \in S : k <= j

\* C22: the store is an upsert by (flow_job_name, sync_batch_id): the table
\* never holds two rows with one key; a GetAvroStage of a key that no
\* SetAvroStage has stored returns an error and the zero AvroFile; a
\* GetAvroStage of a stored key does not report a missing stage and, when it
\* returns no error, returns the AvroFile of the last SetAvroStage that
\* stored that key, whatever was stored under other keys since
AvroStageIsUpsert ==
    /\ \A key \in StageKeys : Cardinality(StageRows(key[1], key[2])) <= 1
    /\ \A i \in DOMAIN avroCalls :
          avroCalls[i].op = "GetAvroStage" =>
              IF SetsBefore(i) = {}
              THEN avroCalls[i].err # "nil" /\ avroCalls[i].avroFile = ZeroAvroFile
              ELSE /\ avroCalls[i].err # "no avro stage found"
                   /\ avroCalls[i].err = "nil" =>
                          avroCalls[i].avroFile = avroCalls[LastOf(SetsBefore(i))].avroFile
                   /\ avroCalls[i].err # "nil" => avroCalls[i].avroFile = ZeroAvroFile

\* a key was stored twice, another key once after it, and GetAvroStage has
\* returned the second value of the first key
SecondValueRead ==
    /\ Len(avroCalls) = 4
    /\ \A i \in 1..4 : avroCalls[i].err = "nil"
    /\ \A i \in 1..3 : avroCalls[i].op = "SetAvroStage"
    /\ avroCalls[4].op = "GetAvroStage"
    /\ <<avroCalls[1].flowJobName, avroCalls[1].syncBatchID>> = <<"m1", 1>>
    /\ <<avroCalls[2].flowJobName, avroCalls[2].syncBatchID>> = <<"m1", 1>>
    /\ <<avroCalls[3].flowJobName, avroCalls[3].syncBatchID>> = <<"m1", 2>>
    /\ <<avroCalls[4].flowJobName, avroCalls[4].syncBatchID>> = <<"m1", 1>>
    /\ avroCalls[1].avroFile # avroCalls[2].avroFile
    /\ avroCalls[3].avroFile = avroCalls[1].avroFile
    /\ avroCalls[4].avroFile = avroCalls[2].avroFile
    /\ Cardinality(ch_s3_stage) = 2

(* ----------------------- resync during the setup phase ----------------- *)
\* the run has left the Setup/Snapshot/Rename phase for DropFlowWorkflow on
\* a Resync request
ResyncInSetupPhase ==
    /\ pc = "done" /\ outcome = "can_drop"
    /\ calls.SetupFlow = 1
    /\ state.ActiveSignal = "ResyncSignal"

\* C23: a Resync request received in the Setup/Snapshot/Rename phase, also
\* of a resync run, persists no suffixed mapping: the config uploaded to the
\* catalog and the config of DropFlowInput are the same config, whose
\* TableMappings are originalTableMappings, the mappings of the config the
\* run was entered with; in a resync run these are the mappings SetupFlow
\* was given less the suffix the run added
NestedResyncKeepsOriginalNames ==
    /\ ResyncInSetupPhase =>
          /\ catalogConfig # Nil
          /\ catalogConfig.TableMappings = originalTableMappings
          /\ state.DropFlowInput.FlowConnectionConfigs = catalogConfig
          /\ state.DropFlowInput.Resync /\ catalogConfig.Resync
          /\ setupFlowInput.Resync =>
                \A i \in DOMAIN originalTableMappings :
                    originalTableMappings[i].Engine # NullEngine =>
                        catalogConfig.TableMappings[i].DestinationTableIdentifier #
                            setupFlowInput.TableMappings[i].DestinationTableIdentifier
    /\ setupFlowInput # Nil =>
          setupFlowInput.TableMappings =
              IF setupFlowInput.Resync THEN AddResyncSuffix(originalTableMappings)
              ELSE originalTableMappings

\* a resync run got a Resync request while it waited for RenameTables
ResyncDuringResyncRename ==
    /\ ResyncInSetupPhase
    /\ setupFlowInput.Resync
    /\ calls.RenameTables = 1 /\ "rename" \notin fired
    /\ catalogConfig.TableMappings = <<mR, mB>>

(* -------------------------------- backoff ------------------------------ *)
\* the minutes of backoff per ErrorCount 0, 1, 2, ... for each class of
\* error; the last entry is the cap
BackoffTable(err) ==
    CASE err = "panic" -> <<10, 25, 40, 55>>
      [] err \in {"nonapplication", "sqlstate55006"} -> <<1, 2, 3, 4, 5, 6, 7, 8, 9, 10>>
      [] OTHER -> <<5, 20, 35, 50, 65, 80>>

BackoffMinutes(err, errorCount) ==
    BackoffTable(err)[Min(errorCount + 1, Len(BackoffTable(err)))]

\* C24: the callback of a failed SyncFlow in a run that is not finished
\* registers a sleep of 10 + min(ErrorCount, 3) * 15 minutes for a panic,
\* 1 + min(ErrorCount, 9) for a non-application error or SQLSTATE 55006 and
\* 5 + min(ErrorCount, 5) * 15 for another application error, ErrorCount
\* being the counter the callback leaves in the State: a duration that does
\* not decrease with ErrorCount and stops at 55, 10 and 80 minutes
BackoffFollowsErrorCount ==
    [][\A dt \in 0..MaxElapsed, err \in SyncErrors :
          (SyncFailureToHandle /\ SyncFlowCallbackAt(dt, err)) =>
              /\ ~sleepFuture'.fired
              /\ sleepFuture'.minutes = BackoffMinutes(err, state'.ErrorCount)
              /\ state'.ErrorCount \in {0, state.ErrorCount}
              /\ sleepFuture'.minutes <= (CASE err = "panic" -> 55
                                            [] err = "application" -> 80
                                            [] OTHER -> 10)]_vars

\* after ten failures in a row the backoff of a non-application error has
\* stopped at ten minutes
BackoffAtItsCap ==
    /\ pc = "main_drain"
    /\ "sync" \in fired /\ syncFlowFuture = "err"
    /\ state.ErrorCount = 10
    /\ sleepFuture = SleepFuture(10)

(* -------------------- the order of the table removals ------------------ *)
\* an activity of the run is started by this step
Started(activity) == calls'[activity] = calls[activity] + 1

\* the Get the coroutine is suspended in returns nil in this step
GetSucceeds(p) == pc = p /\ activityFuture = "ok"

\* the step takes a mapping or a SrcTableIdNameMapping entry out of the State
TablesEdited ==
    \/ ~(Sources(state.SyncFlowOptions.TableMappings)
            \subseteq Sources(state'.SyncFlowOptions.TableMappings))
    \/ ~(DOMAIN state.SyncFlowOptions.SrcTableIdNameMapping
            \subseteq DOMAIN state'.SyncFlowOptions.SrcTableIdNameMapping)

\* C25: RemoveTablesFromPublication, RemoveTablesFromRawTable and
\* RemoveTablesFromCatalog are started in that order, each when the Get of
\* the one before has returned nil; the State loses a table only when the
\* Get of the third has returned nil; and when the update also holds
\* additional tables to add, the removals start once the child CDCFlow has
\* ended and its tables are appended to the live mappings
RemovalsInOrder ==
    [][ /\ Started("RemoveTablesFromPublication") =>
              /\ calls.RemoveTablesFromPublication = 0
              /\ Len(state.FlowConfigUpdate.RemovedTables) > 0
              /\ (Len(state.FlowConfigUpdate.AdditionalTables) > 0
                    /\ (pc = "process_update" =>
                          ~AdditionalTablesHasOverlap(
                              state.SyncFlowOptions.TableMappings,
                              state.FlowConfigUpdate.AdditionalTables))) =>
                    /\ pc = "addtables_select"
                    /\ childAddTablesCDCFlowFuture = "ok"
                    /\ state'.SyncFlowOptions.TableMappings =
                          obs.processing.TableMappings
                              \o state.FlowConfigUpdate.AdditionalTables
        /\ Started("RemoveTablesFromRawTable") =>
              /\ GetSucceeds("rmpub_get")
              /\ calls.RemoveTablesFromPublication = 1
              /\ calls.RemoveTablesFromRawTable = 0
        /\ Started("RemoveTablesFromCatalog") =>
              /\ GetSucceeds("rmraw_get")
              /\ calls.RemoveTablesFromRawTable = 1
              /\ calls.RemoveTablesFromCatalog = 0
        /\ TablesEdited =>
              /\ GetSucceeds("rmcat_get")
              /\ calls.RemoveTablesFromPublication = 1
              /\ calls.RemoveTablesFromRawTable = 1
              /\ calls.RemoveTablesFromCatalog = 1 ]_vars

\* a table was added and another removed by one update
AddedThenRemoved ==
    /\ pc = "done" /\ outcome = "can_cdc"
    /\ calls.AddTablesCDCFlow = 1
    /\ calls.RemoveTablesFromPublication = 1
    /\ calls.RemoveTablesFromRawTable = 1
    /\ calls.RemoveTablesFromCatalog = 1
    /\ obs.processing.TableMappings = <<mA, mB>>
    /\ state.SyncFlowOptions.TableMappings = <<mA, mC>>

(* ------------------------ when RenameTables runs ----------------------- *)
\* the run went into the setup / snapshot phase with cfg.Resync set
ResyncRun == setupFlowInput # Nil /\ setupFlowInput.Resync

\* C26: RenameTables is started in resync runs only, when the callbacks of
\* SetupFlowWorkflow and SnapshotFlowWorkflow have both run on a success and
\* while the status is still Snapshot: the run sets Running or Completed
\* once the activity has succeeded. Its input has one option for each live
\* mapping, in their order: from original + "_resync" to the original name
\* when the engine is not NULL, and CurrentName = NewName = the mapping's
\* name when it is
RenameOnlyInResync ==
    /\ ~ResyncRun => (calls.RenameTables = 0 /\ renameTablesFuture = "none"
                        /\ renameTablesInput = Nil)
    /\ calls.RenameTables > 0 =>
          /\ calls.RenameTables = 1
          /\ calls.SetupFlow = 1 /\ setupFlowFuture = "ok" /\ "setup" \in fired
          /\ calls.SnapshotFlow = 1 /\ snapshotFlowFuture = "ok" /\ "snapshot" \in fired
          /\ LET live == state.SyncFlowOptions.TableMappings
             IN  /\ DOMAIN renameTablesInput = DOMAIN live
                 /\ DOMAIN live = DOMAIN originalTableMappings
                 /\ \A i \in DOMAIN live :
                       LET original == originalTableMappings[i].DestinationTableIdentifier
                       IN  IF live[i].Engine # NullEngine
                           THEN /\ renameTablesInput[i].CurrentName =
                                       original \o <<ResyncSuffix>>
                                /\ renameTablesInput[i].NewName = original
                           ELSE /\ renameTablesInput[i].CurrentName = original
                                /\ renameTablesInput[i].NewName = original
                                /\ live[i].DestinationTableIdentifier = original
          /\ (renameTablesFuture # "ok" \/ "rename" \notin fired) =>
                /\ state.CurrentFlowStatus = "STATUS_SNAPSHOT"
                /\ "STATUS_RUNNING" \notin Range(statusTrail)
                /\ "STATUS_COMPLETED" \notin Range(statusTrail)
    /\ (ResyncRun /\ pc = "done" /\ outcome = "can_cdc") =>
          (calls.RenameTables = 1 /\ renameTablesFuture = "ok" /\ "rename" \in fired)

\* a resync of a and b has renamed and the mirror runs: b, whose engine is
\* NULL, was renamed to itself
RenamedBeforeRunning ==
    /\ ResyncRun
    /\ pc = "done" /\ outcome = "can_cdc"
    /\ state.CurrentFlowStatus = "STATUS_RUNNING"
    /\ renameTablesInput =
          << [CurrentName |-> <<"A", ResyncSuffix>>, NewName |-> <<"A">>],
             [CurrentName |-> <<"B">>, NewName |-> <<"B">>] >>

(* ------------------- a config update ends the pause -------------------- *)
\* processCDCFlowConfigUpdate returned an error: a failed activity or
\* child, a cancellation, or the continue-as-new into DropFlowWorkflow of a
\* Terminating or Resync request handled while tables were added
ProcessingFailed ==
    pc = "done" /\ outcome \in {"return_failed", "return_cancelled", "can_drop"}

\* the run has continued-as-new into CDCFlowWorkflow with the update wiped
ResumedAfterUpdate ==
    /\ pc = "done" /\ outcome = "can_cdc"
    /\ state.FlowConfigUpdate = Nil
    /\ state.ActiveSignal = "NoopSignal"
    /\ state.CurrentFlowStatus = "STATUS_RUNNING"
    /\ statusTrail[Len(statusTrail)] = "STATUS_RUNNING"

\* C27: when the pause loop has received a CDCDynamicProperties signal and
\* goes on to process it, the run ends: unless the processing returns an
\* error, it ends by continuing-as-new into CDCFlowWorkflow with
\* FlowConfigUpdate nil, ActiveSignal Noop and status Running, whatever the
\* update holds
UpdateEndsPause ==
    (pc = "process_update" /\ state.ActiveSignal = "PauseSignal")
        ~> (ResumedAfterUpdate \/ ProcessingFailed)

\* an update with no option and no table has resumed the mirror, which is
\* otherwise as it was
ResumedByEmptyUpdate ==
    /\ ResumedAfterUpdate
    /\ obs.processing # Nil
    /\ obs.processing.FlowConfigUpdate = CfgUpdate(Knobs(0), 0, <<>>, <<>>, NoEnv)
    /\ calls = NoCalls
    /\ \E s \in PausedMirrorStates :
          state = [s EXCEPT !.ActiveSignal = "NoopSignal"]

(* -------------------- resync while tables are added -------------------- *)
\* the AddTables selector hands a Resync request to its callback
ResyncHandledInAddTables ==
    /\ pc = "addtables_select"
    /\ flowSignalStateChangeChan # <<>>
    /\ Head(flowSignalStateChangeChan) = "STATUS_RESYNC"
    /\ flowSignalStateChangeChan' = Tail(flowSignalStateChangeChan)

\* how often mapping m occurs in tms
Occurrences(tms, m) == Cardinality({ i \in DOMAIN tms : tms[i] = m })

\* C28: the step in which the AddTables selector handles a Resync request
\* ends the run by continuing-as-new into DropFlowWorkflow with Resync set
\* and a config whose TableMappings are the mappings that were live when
\* the update was taken up followed by AdditionalTables, every additional
\* mapping once, and the catalog holds that config
ResyncWhileAddingTables ==
    [][ ResyncHandledInAddTables =>
          LET additional == state.FlowConfigUpdate.AdditionalTables
              input == state'.DropFlowInput
              resyncCfg == input.FlowConnectionConfigs
          IN  /\ pc' = "done" /\ outcome' = "can_drop"
              /\ input # Nil /\ input.Resync
              /\ input.FlowJobName = cfg.FlowJobName
              /\ resyncCfg # Nil
              /\ resyncCfg.TableMappings = obs.processing.TableMappings \o additional
              /\ \A i \in DOMAIN additional :
                    Occurrences(resyncCfg.TableMappings, additional[i]) = 1
              /\ catalogConfig' = resyncCfg ]_vars

\* a resync was asked for while the child of table c ran: the mirror is
\* dropped and resynced with a, b and c
ResyncedWithAdditionalTable ==
    /\ pc = "done" /\ outcome = "can_drop"
    /\ childAddTablesCDCFlowFuture = "running"
    /\ state.ActiveSignal = "ResyncSignal"
    /\ state.DropFlowInput.FlowConnectionConfigs.TableMappings = <<mA, mB, mC>>
    /\ catalogConfig = state.DropFlowInput.FlowConnectionConfigs

(* ---------------------- additions that are skipped --------------------- *)
\* the update taken up has no additional table, or one that shares its
\* source or its destination with a live mapping
SkippedAdditions ==
    /\ obs.processing # Nil
    /\ \/ Len(obs.processing.FlowConfigUpdate.AdditionalTables) = 0
       \/ AdditionalTablesHasOverlap(obs.processing.TableMappings,
                                     obs.processing.FlowConfigUpdate.AdditionalTables)

\* the removals of the update have been applied to the State
RemovalsApplied == calls.RemoveTablesFromCatalog = 1 /\ pc = "done" /\ outcome = "can_cdc"

\* C29: when the update taken up has no additional table or an overlapping
\* one, AddTablesToPublication and the child CDCFlow are not started and no
\* status call for Snapshot is made; the processing goes on in the same
\* step, to the removals when the update has any and else to the end of
\* the pause; TableMappings and SrcTableIdNameMapping stay what they were
\* until the removals are applied, and then hold everything but the
\* removed tables
OverlapSkipsAdditions ==
    SkippedAdditions =>
        LET u == obs.processing.FlowConfigUpdate
            removed == Sources(u.RemovedTables)
            idsBefore == obs.processing.SrcTableIdNameMapping
        IN  /\ calls.AddTablesToPublication = 0
            /\ calls.AddTablesCDCFlow = 0
            /\ childAddTablesCDCFlowFuture = "none"
            /\ pc \notin {"process_update", "addpub_get", "addtables_select"}
            /\ "STATUS_SNAPSHOT" \notin Range(statusTrail)
            /\ state.CurrentFlowStatus # "STATUS_SNAPSHOT"
            /\ IF Len(u.RemovedTables) > 0
               THEN calls.RemoveTablesFromPublication = 1
               ELSE /\ pc = "done" /\ outcome = "can_cdc"
                    /\ calls = NoCalls
            /\ IF RemovalsApplied
               THEN /\ state.SyncFlowOptions.TableMappings =
                          SeqFilterOut(obs.processing.TableMappings, removed)
                    /\ state.SyncFlowOptions.SrcTableIdNameMapping =
                          [k \in { k \in DOMAIN idsBefore : idsBefore[k] \notin removed }
                              |-> idsBefore[k]]
               ELSE /\ state.SyncFlowOptions.TableMappings = obs.processing.TableMappings
                    /\ state.SyncFlowOptions.SrcTableIdNameMapping = idsBefore

\* table d, which has the destination of a, was not added, and b was
\* removed by the same update
OverlappingSkippedAndRemoved ==
    /\ SkippedAdditions
    /\ RemovalsApplied
    /\ obs.processing.FlowConfigUpdate.AdditionalTables = <<mD>>
    /\ obs.processing.TableMappings = <<mA, mB>>
    /\ state.SyncFlowOptions.TableMappings = <<mA>>

(* ------------------------ options of an update ------------------------- *)
\* the options of the State, under the names the update gives them
OptionsOf(s) ==
    [BatchSize |-> s.SyncFlowOptions.BatchSize,
     IdleTimeout |-> s.SyncFlowOptions.IdleTimeoutSeconds,
     NumberOfSyncs |-> s.SyncFlowOptions.NumberOfSyncs,
     SnapshotNumRowsPerPartition |-> s.SnapshotNumRowsPerPartition,
     SnapshotMaxParallelWorkers |-> s.SnapshotMaxParallelWorkers,
     SnapshotNumTablesInParallel |-> s.SnapshotNumTablesInParallel]

\* the options a config holds, under the same names
ConfigOptionsOf(c) ==
    [BatchSize |-> c.MaxBatchSize,
     IdleTimeout |-> c.IdleTimeoutSeconds,
     SnapshotNumRowsPerPartition |-> c.SnapshotNumRowsPerPartition,
     SnapshotMaxParallelWorkers |-> c.SnapshotMaxParallelWorkers,
     SnapshotNumTablesInParallel |-> c.SnapshotNumTablesInParallel]

\* C30: the step that takes the update up gives every option the update's
\* value when that is positive, leaves it when that is zero, and sets
\* NumberOfSyncs, the one field that can be negative, to 0 when it is; no
\* later step of the processing changes an option; and every config the
\* processing uploads, the one of a run that resumes included, holds the
\* State's options and TableMappings as they are after the step
OptionsOverwrittenWhenPositive ==
    [][ LET before == OptionsOf(state)
            after == OptionsOf(state')
        IN  /\ IF pc = "process_update"
               THEN \A f \in DOMAIN before :
                       LET v == state.FlowConfigUpdate[f]
                       IN  /\ v > 0 => after[f] = v
                           /\ v = 0 => after[f] = before[f]
                           /\ v < 0 => (f = "NumberOfSyncs" /\ after[f] = 0)
               ELSE after = before
            /\ (catalogConfig' # catalogConfig
                  \/ (pc' = "done" /\ outcome' = "can_cdc")) =>
                  /\ catalogConfig' # Nil
                  /\ \A f \in DOMAIN ConfigOptionsOf(catalogConfig') :
                        ConfigOptionsOf(catalogConfig')[f] = after[f]
                  /\ catalogConfig'.TableMappings =
                        state'.SyncFlowOptions.TableMappings ]_vars

\* an update with a positive BatchSize, a zero IdleTimeout and a negative
\* NumberOfSyncs was applied to a mirror set to pause after three syncs
OptionsPartlyOverwritten ==
    /\ pc = "done" /\ outcome = "can_cdc"
    /\ obs.processing # Nil
    /\ obs.processing.FlowConfigUpdate.BatchSize = 2
    /\ obs.processing.FlowConfigUpdate.IdleTimeout = 0
    /\ obs.processing.FlowConfigUpdate.NumberOfSyncs < 0
    /\ obs.processing.FlowConfigUpdate.SnapshotMaxParallelWorkers = 0
    /\ state.SyncFlowOptions.BatchSize = 2
    /\ state.SyncFlowOptions.IdleTimeoutSeconds = 1
    /\ state.SyncFlowOptions.NumberOfSyncs = 0
    /\ state.SnapshotMaxParallelWorkers = 1
    /\ catalogConfig.MaxBatchSize = 2
    /\ catalogConfig.IdleTimeoutSeconds = 1

(* ------------------------- Completed is absorbing ---------------------- *)
\* the coroutine leaves the entry of a run that was handed a Completed State
EnteredCompleted ==
    /\ pc = "entry" /\ pc' # "entry"
    /\ state # Nil
    /\ state.CurrentFlowStatus = "STATUS_COMPLETED"

\* C31: a run entered with status Completed returns the State it was given
\* and no error in its first step, with no child or activity started, no
\* status or config written to the catalog and every signal channel as it
\* was; and nothing happens after the return
CompletedIsAbsorbing ==
    [][ /\ EnteredCompleted =>
              /\ pc' = "done" /\ outcome' = "return"
              /\ state' = state /\ cfg' = cfg
              /\ calls' = NoCalls /\ syncLive' = syncLive
              /\ UNCHANGED << setupVars, updVars, mainVars >>
              /\ UNCHANGED << catalogStatus, catalogConfig, statusTrail >>
              /\ UNCHANGED << flowSignalChan, flowSignalStateChangeChan,
                              cdcPropertiesSignalChan >>
        /\ (pc = "done" /\ outcome = "return") => UNCHANGED vars ]_vars

\* the orchestrator has returned Completed with a Terminating request and a
\* config update still in its channels
ReturnedWithSignalsPending ==
    /\ pc = "done" /\ outcome = "return"
    /\ state.CurrentFlowStatus = "STATUS_COMPLETED"
    /\ calls = NoCalls /\ statusTrail = <<>>
    /\ flowSignalStateChangeChan = <<"STATUS_TERMINATING">>
    /\ cdcPropertiesSignalChan # <<>>

(* -------------- a Paused request outside the two loops ----------------- *)
\* the selector waiting at p hands a Paused request to its callback
PausedRequestHandled(p) ==
    /\ pc = p
    /\ flowSignalStateChangeChan # <<>>
    /\ Head(flowSignalStateChangeChan) = "STATUS_PAUSED"
    /\ flowSignalStateChangeChan' = Tail(flowSignalStateChangeChan)

\* C32: the step in which the Setup/Snapshot selector or the AddTables
\* selector handles a Paused request leaves the State (ActiveSignal,
\* CurrentFlowStatus and DropFlowInput with it), the config, the catalog,
\* the children and the activities as they are, and the coroutine goes on
\* waiting where it was; it ends the run only if the workflow is cancelled
PausedRequestIgnored ==
    [][ \A p \in SetupPhasePcs \cup {"addtables_select"} :
          PausedRequestHandled(p) =>
              /\ state' = state /\ cfg' = cfg
              /\ UNCHANGED << catalogStatus, catalogConfig, statusTrail >>
              /\ UNCHANGED << calls, syncLive, fired, setupVars, updVars >>
              /\ IF ctxErr
                 THEN pc' = "done" /\ outcome' = "return_cancelled"
                 ELSE pc' = pc /\ outcome' = outcome ]_vars

\* the one request sent was taken by the Setup/Snapshot selector, and the
\* phase has ended as it does with no request
SetupEndedAfterIgnoredRequest ==
    /\ pc = "done" /\ outcome = "can_cdc"
    /\ calls.SnapshotFlow = 1
    /\ sent.stateChange = 1 /\ flowSignalStateChangeChan = <<>>
    /\ state.ActiveSignal = "NoopSignal"
    /\ state.DropFlowInput = Nil
    /\ state.CurrentFlowStatus = "STATUS_RUNNING"

(* ----------------------- what ends a pause ----------------------------- *)
\* the coroutine leaves the entry of a run that was handed a State with
\* ActiveSignal Pause
EnteredPaused ==
    /\ pc = "entry" /\ pc' # "entry"
    /\ state # Nil
    /\ state.ActiveSignal = "PauseSignal"
    /\ state.CurrentFlowStatus # "STATUS_COMPLETED"

\* a callback of the step takes a signal that can end a pause
WakingSignalTaken ==
    \/ /\ flowSignalChan # <<>>
       /\ flowSignalChan' = Tail(flowSignalChan)
       /\ Head(flowSignalChan) = "NoopSignal"
    \/ /\ flowSignalStateChangeChan # <<>>
       /\ flowSignalStateChangeChan' = Tail(flowSignalStateChangeChan)
       /\ Head(flowSignalStateChangeChan) \in {"STATUS_TERMINATING", "STATUS_RESYNC"}
    \/ /\ cdcPropertiesSignalChan # <<>>
       /\ cdcPropertiesSignalChan' = Tail(cdcPropertiesSignalChan)

\* while the pause loop waits the status is Paused and no SyncFlow exists,
\* and it stops waiting only in a step that takes such a signal or finds
\* the workflow cancelled
PauseHeld ==
    /\ pc' = "pause_select" =>
          /\ state'.CurrentFlowStatus = "STATUS_PAUSED"
          /\ catalogStatus' = "STATUS_PAUSED"
          /\ calls'.SyncFlow = 0 /\ syncFlowFuture' = "none"
    /\ (pc = "pause_select" /\ pc' # "pause_select") => (ctxErr \/ WakingSignalTaken)

ConfigUpdatePcs ==
    {"process_update", "addpub_get", "addtables_select", "rmpub_get", "rmraw_get", "rmcat_get"}

\* config update processing is under way: the coroutine is in it, or an
\* activity or the child workflow it started has not finished
ConfigUpdateUnderWay ==
    \/ pc \in ConfigUpdatePcs
    \/ activityFuture = "running"
    \/ childAddTablesCDCFlowFuture = "running"

\* C34: while config update processing is under way (AddTablesToPublication,
\* the add-tables child, the three removal activities) no SyncFlow activity
\* of the mirror is live
NoSyncDuringConfigUpdate ==
    ConfigUpdateUnderWay => (syncLive = 0 /\ syncFlowFuture # "running")

\* a removal activity runs for an update that was stored by a run of the
\* main loop, whose SyncFlow has ended
RemovalAfterSyncEnded ==
    /\ pc = "rmpub_get" /\ activityFuture = "running"
    /\ runStart.PendingUpdate
    /\ calls.RemoveTablesFromPublication = 1
    /\ syncLive = 0

(* ---------------------- two config updates in a row -------------------- *)
\* the table changes of update u are in State s: its removed tables are
\* gone and each added table is there, or a table it overlaps
ChangesApplied(u, s) ==
    /\ \A r \in Range(u.RemovedTables) :
          /\ r.SourceTableIdentifier \notin Sources(s.SyncFlowOptions.TableMappings)
          /\ \A k \in DOMAIN s.SyncFlowOptions.SrcTableIdNameMapping :
                s.SyncFlowOptions.SrcTableIdNameMapping[k] # r.SourceTableIdentifier
    /\ \A a \in Range(u.AdditionalTables) :
          \E m \in Range(s.SyncFlowOptions.TableMappings) :
              \/ m.SourceTableIdentifier = a.SourceTableIdentifier
              \/ m.DestinationTableIdentifier = a.DestinationTableIdentifier

\* the second update has been received too, and a run has processed what
\* the State held with no update left stored or queued
UpdatesProcessed ==
    /\ sent.cdcProps > 0 /\ cdcPropertiesSignalChan = <<>>
    /\ state.FlowConfigUpdate = Nil
    /\ pc = "done" /\ outcome = "can_cdc"
    /\ obs.processing # Nil

\* C35: when a second config update is received while the first is still
\* stored unprocessed, then once processing is over with nothing left the
\* State holds the table changes of both
NoConfigUpdateLost ==
    UpdatesProcessed =>
        /\ ChangesApplied(StoredUpdate, state)
        /\ ChangesApplied(obs.processing.FlowConfigUpdate, state)

(* ------------------------ a removal activity fails --------------------- *)
\* the Get on a removal activity returns an error in this step
RemovalFails ==
    /\ pc \in {"rmpub_get", "rmraw_get", "rmcat_get"}
    /\ activityFuture = "err"
    /\ pc' # pc

\* C36: when the Get on a removal activity fails, the run returns that
\* error (the cancellation error once cancelled) in that step: no further
\* activity is started, the State keeps its tables and its FlowConfigUpdate,
\* nothing is uploaded and no status is written; nothing follows the return
RemovalFailureStops ==
    [][ /\ RemovalFails =>
              /\ pc' = "done"
              /\ outcome' = IF ctxErr THEN "return_cancelled" ELSE "return_failed"
              /\ calls' = calls
              /\ state' = state /\ state.FlowConfigUpdate # Nil
              /\ cfg' = cfg
              /\ catalogConfig' = catalogConfig
              /\ catalogStatus' = catalogStatus /\ statusTrail' = statusTrail
        /\ (pc = "done" /\ outcome \in {"return_failed", "return_cancelled"}) =>
              UNCHANGED << pc, outcome, state, cfg, calls, catalogConfig, catalogStatus >> ]_vars

\* the run has returned the error of RemoveTablesFromRawTable after the
\* additions of the same update were merged: table b is still there,
\* RemoveTablesFromCatalog was never started and no config was uploaded
ReturnedFailedRawTableRemoval ==
    /\ pc = "done" /\ outcome = "return_failed"
    /\ calls.RemoveTablesFromPublication = 1
    /\ calls.RemoveTablesFromRawTable = 1
    /\ calls.RemoveTablesFromCatalog = 0
    /\ state.FlowConfigUpdate # Nil
    /\ Len(state.FlowConfigUpdate.AdditionalTables) > 0
    /\ {"b", "c"} \subseteq Sources(state.SyncFlowOptions.TableMappings)
    /\ catalogConfig = Nil
    /\ state.CurrentFlowStatus # "STATUS_RUNNING"

(* ------------------ a drop request during the backoff ------------------ *)
\* the run that has just ended was a run of the main loop whose SyncFlow
\* failed and registered the backoff sleep, and which then handled a
\* Terminating or Resync request
DropRequestedDuringBackoff ==
    /\ EndedMainLoop
    /\ syncFlowFuture = "err"
    /\ (sleepFuture.minutes > 0 \/ sleepFuture.fired)
    /\ obs.dropRequestInMainLoop

\* C37: a main loop run that handles a Terminating or Resync request after
\* its SyncFlow failed and the backoff sleep was registered ends by
\* continuing-as-new into DropFlowWorkflow with the DropFlowInput prepared
DropRequestDuringBackoffHonored ==
    DropRequestedDuringBackoff =>
        (outcome = "can_drop" /\ state.DropFlowInput # Nil)

(* ------------------ a Pause sent during setup or snapshot -------------- *)
\* a Pause is the first FlowSignal waiting while the run is in the
\* Setup/Snapshot phase
PauseQueuedInSetup ==
    /\ pc \in SetupPhasePcs
    /\ flowSignalChan # <<>>
    /\ Head(flowSignalChan) = "PauseSignal"

\* the Setup/Snapshot phase takes no FlowSignal, and none is dropped when
\* a run is entered or has ended
FlowSignalsKept ==
    (pc \in SetupPhasePcs \cup {"entry", "done"}) =>
        /\ Len(flowSignalChan') >= Len(flowSignalChan)
        /\ SubSeq(flowSignalChan', 1, Len(flowSignalChan)) = flowSignalChan

\* the phase has ended otherwise than with status Running: the run failed
\* or left for DropFlowWorkflow
PhaseEndedNotRunning ==
    /\ pc = "done" /\ state # Nil
    /\ state.CurrentFlowStatus \notin {"STATUS_RUNNING", "STATUS_PAUSED"}

\* a run of the main loop holds a Terminating or Resync decision
DropDecidedInMainLoop == pc \in MainPcs /\ DropRequested(state)

MirrorPaused == state # Nil /\ state.CurrentFlowStatus = "STATUS_PAUSED"

TerminatedInResyncSetup ==
    /\ pc = "done" /\ outcome = "can_drop"
    /\ calls.SetupFlow = 1
    /\ cfg.Resync
    /\ state.ActiveSignal = "TerminateSignal"

\* C39: the config handed to DropFlowWorkflow by a Terminating request in
\* the Setup/Snapshot phase of a resync run is the one uploaded to the
\* catalog, and its TableMappings are those of the State: the mappings the
\* run was entered with, suffixed where the engine is not NULL, when the
\* rename step has not begun
TerminatingDropsLiveMappings ==
    TerminatedInResyncSetup =>
        LET dropCfg == state.DropFlowInput.FlowConnectionConfigs
        IN  /\ ~state.DropFlowInput.Resync
            /\ catalogConfig = dropCfg
            /\ dropCfg.TableMappings = state.SyncFlowOptions.TableMappings
            /\ renameTablesFuture = "none" =>
                   dropCfg.TableMappings = AddResyncSuffix(originalTableMappings)

\* the request came while SnapshotFlow was running, and the mappings
\* handed to the drop are not the ones the run was entered with
TerminatedResyncDuringSnapshot ==
    /\ TerminatedInResyncSetup
    /\ calls.SnapshotFlow = 1
    /\ renameTablesFuture = "none"
    /\ state.DropFlowInput.FlowConnectionConfigs.TableMappings # originalTableMappings
    /\ catalogConfig.TableMappings = AddResyncSuffix(originalTableMappings)

(* ------------------- connections handed out by connect ----------------- *)
\* C40: a connection that connect returns without error has had its
\* sql_mode set
HandedOutInitialised == handed.conn # 0 => handed.sqlMode

====
